---- MODULE Spec2Model ----
(***************************************************************************)
(* Chinese Checkers on a hexagonal grid: the board state (GameState), the  *)
(* move generation engine (MoveCalculator), the game flow (GameMode) and   *)
(* the input controller with its animated jump moves (PlayerController).   *)
(***************************************************************************)
EXTENDS Integers, Sequences, FiniteSets, TLC

VARIABLES
    board,          \* GameState.board: position key -> BoardCell
    pieces,         \* the Piece objects alive: piece id -> its fields
    players,        \* GameState.players: sequence of PlayerState
    turnIndex,      \* GameState.turnIndex
    turnOrder,      \* GameState.turnOrder
    matchPhase,     \* GameState.matchPhase
    selectedPiece,  \* PlayerController.selectedPiece (a piece id or Null)
    validMoves,     \* PlayerController.validMoves
    isAnimating,    \* PlayerController.isAnimating
    pending,        \* animations whose completion callback has not run yet
    emitted,        \* events emitted by the last operation, in order
    listeners,      \* GameState.events.listeners: event name -> its callbacks
    lastOp,         \* the last operation, its arguments and its result
    gameNo,         \* number of initGame calls so far (names the Piece objects)
    moveNo          \* number of moves requested so far

vars == <<board, pieces, players, turnIndex, turnOrder, matchPhase,
          selectedPiece, validMoves, isAnimating, pending, emitted, listeners,
          lastOp, gameNo, moveNo>>

\* null, where a Piece reference is expected (the Piece objects are numbered from 1)
Null == 0

\* ------------------------------------------------------------------------
\* Bounds of the model
\* ------------------------------------------------------------------------
\* moves requested in a run, and games started in a run
MaxMoves == 2
MaxGames == 2
\* move queries: at most MaxPieces pieces stand in a region of RegionSize cells
MaxPieces == 5
RegionSize == 10
\* direct calls of GameState.movePiece in a run
MaxCalls == 2
\* the largest player count handed to the configuration, and the calls of
\* nextTurn in a run
MaxCountInput == 8
MaxTurns == 12
\* the largest coordinate handed to the board queries, and the calls of
\* findValidMoves in a run
MaxCoord == 9
MaxQueries == 3
\* SpecEvents: calls of subscribe and unsubscribe in a run
MaxSubscriptions == 3
\* SpecMove: pieces brought to the region of the query, and its size
MaxMovers == 3
MoveRegionSize == 6

\* ------------------------------------------------------------------------
\* HexPosition (core/hexUtils.js)
\* ------------------------------------------------------------------------
Abs(n) == IF n < 0 THEN -n ELSE n

HexPosition(q, r) == <<q, r>>

Digit(d) == CASE d = 0 -> "0" [] d = 1 -> "1" [] d = 2 -> "2" [] d = 3 -> "3"
              [] d = 4 -> "4" [] d = 5 -> "5" [] d = 6 -> "6" [] d = 7 -> "7"
              [] d = 8 -> "8" [] d = 9 -> "9"

RECURSIVE NatStr(_)
NatStr(n) == IF n < 10 THEN <<Digit(n)>> ELSE NatStr(n \div 10) \o <<Digit(n % 10)>>

\* template literal `${n}`: the decimal digits, a leading "-" when negative
NumStr(n) == IF n < 0 THEN <<"-">> \o NatStr(-n) ELSE NatStr(n)

\* get key(): `${this.q},${this.r}`, as the sequence of its characters
Key(pos) == NumStr(pos[1]) \o <<",">> \o NumStr(pos[2])

Equals(a, b) == a[1] = b[1] /\ a[2] = b[2]

\* key.split(','): the pieces between the commas
RECURSIVE split(_)
split(cs) ==
    LET commas == {i \in 1..Len(cs) : cs[i] = ","}
    IN  IF commas = {} THEN <<cs>>
        ELSE LET c == CHOOSE i \in commas : \A j \in commas : i <= j
             IN  <<SubSeq(cs, 1, c - 1)>> \o split(SubSeq(cs, c + 1, Len(cs)))

DigitValue(c) == CHOOSE d \in 0..9 : Digit(d) = c

RECURSIVE NatValue(_)
NatValue(cs) ==
    IF Len(cs) = 0 THEN 0
    ELSE NatValue(SubSeq(cs, 1, Len(cs) - 1)) * 10 + DigitValue(cs[Len(cs)])

\* faulty variant: the sign is dropped
NumberUnsigned(cs) ==
    IF Len(cs) > 0 /\ cs[1] = "-" THEN NatValue(Tail(cs)) ELSE NatValue(cs)

\* Number(string), for the decimal numerals a key is made of
Number(cs) ==
    IF Len(cs) > 0 /\ cs[1] = "-" THEN -NatValue(Tail(cs)) ELSE NatValue(cs)

\* static fromKey(key): const [q, r] = key.split(',').map(Number)
\* (fromKey is also the name of a parameter of updatePiecePosition)
HexPositionFromKey(key) == HexPosition(Number(split(key)[1]), Number(split(key)[2]))

Add(a, b) == HexPosition(a[1] + b[1], a[2] + b[2])

Scale(a, factor) == HexPosition(a[1] * factor, a[2] * factor)

rotate60CCW(p) == HexPosition(-p[2], p[1] + p[2])

rotate60CW(p) == HexPosition(p[1] + p[2], -p[1])

RECURSIVE rotateN(_, _)
rotateN(p, n) == IF n <= 0 THEN p ELSE rotateN(rotate60CCW(p), n - 1)

\* HexDirection, in the order of Object.values: E, NE, NW, W, SW, SE
HEX_DIRECTIONS == << <<1, 0>>, <<1, -1>>, <<0, -1>>, <<-1, 0>>, <<-1, 1>>, <<0, 1>> >>

\* ------------------------------------------------------------------------
\* TriangleGenerator and GameConfig (core/config.js)
\* ------------------------------------------------------------------------
baseTriangle == << <<4, -8>>,
                   <<3, -7>>, <<4, -7>>,
                   <<2, -6>>, <<3, -6>>, <<4, -6>>,
                   <<1, -5>>, <<2, -5>>, <<3, -5>>, <<4, -5>> >>

\* faulty variant: the counter-clockwise rotation is taken for the clockwise one
generateTriangleCCW(rotationCount) ==
    [i \in 1..Len(baseTriangle) |-> rotateN(baseTriangle[i], rotationCount)]

generateTriangle(rotationCount) ==
    LET ccwRotation == (6 - rotationCount) % 6
    IN  [i \in 1..Len(baseTriangle) |-> rotateN(baseTriangle[i], ccwRotation)]

\* generateAllTriangles(): triangle index 0..5 -> its ten positions
homeSpaces == [t \in 0..5 |-> generateTriangle(t)]

\* faulty variant: three players on neighbouring triangles
getPlayerTriangleIndicesAdjacent(playerCount) ==
    CASE playerCount = 2 -> <<0, 3>>
      [] playerCount = 3 -> <<2, 3, 4>>
      [] playerCount = 4 -> <<0, 1, 3, 4>>
      [] playerCount = 5 -> <<0, 1, 2, 3, 4>>
      [] OTHER -> <<0, 1, 2, 3, 4, 5>>

getPlayerTriangleIndices(playerCount) ==
    CASE playerCount = 2 -> <<0, 3>>
      [] playerCount = 3 -> <<1, 3, 5>>
      [] playerCount = 4 -> <<0, 1, 3, 4>>
      [] playerCount = 5 -> <<0, 1, 2, 3, 4>>
      [] OTHER -> <<0, 1, 2, 3, 4, 5>>

\* faulty variant: the goal is two triangles on
getGoalTriangleIndexNear(homeIndex) == (homeIndex + 2) % 6

getGoalTriangleIndex(homeIndex) == (homeIndex + 3) % 6

SeqRange(s) == {s[i] : i \in 1..Len(s)}

\* faulty variant: the round of all six triangles, the filter left out
getTurnOrderOfAll(playerIndices) == <<3, 4, 5, 0, 1, 2>>

\* faulty variant: the turn order is the order of the player list
getTurnOrderOfList(playerIndices) == playerIndices

getTurnOrder(playerIndices) ==
    LET clockwiseFrom6 == <<3, 4, 5, 0, 1, 2>>
    IN  SelectSeq(clockwiseFrom6, LAMBDA idx : idx \in SeqRange(playerIndices))

\* ------------------------------------------------------------------------
\* Board topology (GameState.initializeBoard)
\* ------------------------------------------------------------------------
\* faulty variant: a central hexagon of radius 5
CenterCellsWide == {p \in (-5..5) \X (-5..5) : Abs(-p[1] - p[2]) <= 5}

CenterCells == {p \in (-4..4) \X (-4..4) : Abs(-p[1] - p[2]) <= 4}

TriangleCells(t) == SeqRange(homeSpaces[t])

AllCells == CenterCells \cup UNION {TriangleCells(t) : t \in 0..5}

\* the home index the last board.set of a position leaves: triangles are set
\* after the centre, in index order
CellHomeIndex(p) ==
    LET ts == {t \in 0..5 : p \in TriangleCells(t)}
    IN  IF ts = {} THEN -1 ELSE CHOOSE t \in ts : \A u \in ts : u <= t

BoardCell(position, homeIndex) ==
    [position |-> position, homeIndex |-> homeIndex, piece |-> Null]

CellKeys == {Key(p) : p \in AllCells}

PosOfKey == [k \in CellKeys |-> CHOOSE p \in AllCells : Key(p) = k]

initializeBoard ==
    [k \in CellKeys |-> BoardCell(PosOfKey[k], CellHomeIndex(PosOfKey[k]))]

\* ------------------------------------------------------------------------
\* GameState: board access
\* ------------------------------------------------------------------------
\* faulty variant: every coordinate counts as a cell
isPositionOnBoardAnywhere(b, pos) == TRUE

isPositionOnBoard(b, pos) == Key(pos) \in DOMAIN b

getPieceAt(b, pos) == IF Key(pos) \in DOMAIN b THEN b[Key(pos)].piece ELSE Null

\* faulty variant: what is not a cell counts as occupied
isPositionOccupiedOutside(b, pos) ==
    IF Key(pos) \in DOMAIN b THEN b[Key(pos)].piece # Null ELSE TRUE

isPositionOccupied(b, pos) ==
    IF Key(pos) \in DOMAIN b THEN b[Key(pos)].piece # Null ELSE FALSE

\* ------------------------------------------------------------------------
\* Move info (core/types.js)
\* ------------------------------------------------------------------------
createSimpleMove(targetPos) ==
    [targetPos |-> targetPos, type |-> "move", jumpPath |-> <<>>]

\* faulty variant: the path of a jump holds its landing spot only
createJumpMoveDirect(targetPos, jumpPath) ==
    [targetPos |-> targetPos, type |-> "jump", jumpPath |-> <<targetPos>>]

createJumpMove(targetPos, jumpPath) ==
    [targetPos |-> targetPos, type |-> "jump", jumpPath |-> jumpPath]

\* ------------------------------------------------------------------------
\* MoveCalculator (game/MoveCalculator.js)
\* The search threads two mutable collections through the recursion:
\* st.visited (a Set of keys) and st.moves (the array of moves found so far).
\* st.explored lists, in order, the coordinates whose six directions a call
\* of _findMoves has gone on to scan (the calls that pass the visited test).
\* ------------------------------------------------------------------------
\* the scan limit of the while loop
MaxScanDistance == 16

\* faulty variants of the step rule, used to see that the properties below tell
\* the rule of the program from them: a step onto an occupied cell, and a step
\* after a jump
StepOntoPiece(b, adjPos, hasJumped) ==
    isPositionOnBoard(b, adjPos) /\ ~hasJumped

StepAfterJump(b, adjPos, hasJumped) ==
    isPositionOnBoard(b, adjPos) /\ ~isPositionOccupied(b, adjPos)

\* if (!isPositionOccupied(adjPos) && !hasJumped), inside if (isPositionOnBoard(adjPos))
StepAllowed(b, adjPos, hasJumped) ==
    isPositionOnBoard(b, adjPos) /\ ~isPositionOccupied(b, adjPos) /\ ~hasJumped

\* faulty variant: the piece being moved is a pivot like any other
NeverOwnOrigin(checkPos, startPos) == FALSE

\* if (checkPos.equals(startPos)) break;  "Can't jump over yourself"
IsOwnOrigin(checkPos, startPos) == Equals(checkPos, startPos)

\* faulty variant: the landing spot right behind the pivot
LandsBehindPivot(distance, pieceDistance) == distance = pieceDistance + 1

\* else if (distance === pieceDistance * 2)
IsLandingDistance(distance, pieceDistance) == distance = pieceDistance * 2

\* faulty variant: a landing spot is recorded however often it is reached
NeverVisited(visited, checkPos) == TRUE

\* if (!visited.has(checkPos.key))
NotVisited(visited, checkPos) == Key(checkPos) \notin visited

\* true of every search state; asking it makes the evaluation compute st before
\* what follows, in the order of the program
Computed(st) == Len(st.moves) >= 0

RECURSIVE _scanJumpUnblocked(_, _, _, _, _, _, _)
\* faulty variant: a piece behind the pivot does not end the scan
_scanJumpUnblocked(b, startPos, currentPos, dir, distance, foundPiece, pieceDistance) ==
    IF distance > MaxScanDistance THEN 0
    ELSE
    LET checkPos == Add(currentPos, Scale(dir, distance))
    IN  IF ~isPositionOnBoard(b, checkPos) THEN 0
        ELSE
        LET isOccupied == isPositionOccupied(b, checkPos)
        IN  IF ~foundPiece
            THEN IF isOccupied
                 THEN IF IsOwnOrigin(checkPos, startPos) THEN 0
                      ELSE _scanJumpUnblocked(b, startPos, currentPos, dir, distance + 1,
                                              TRUE, distance)
                 ELSE _scanJumpUnblocked(b, startPos, currentPos, dir, distance + 1,
                                         FALSE, pieceDistance)
            ELSE IF ~isOccupied /\ IsLandingDistance(distance, pieceDistance) THEN distance
                 ELSE IF distance >= pieceDistance * 2 THEN 0
                 ELSE _scanJumpUnblocked(b, startPos, currentPos, dir, distance + 1,
                                         foundPiece, pieceDistance)

RECURSIVE _scanJump(_, _, _, _, _, _, _)
\* the while loop of _checkJumpInDirection from `distance` on, up to the place
\* where it finds a landing spot: the distance of that spot, 0 when the loop
\* ends (break, or distance > 16) without one
_scanJump(b, startPos, currentPos, dir, distance, foundPiece, pieceDistance) ==
    IF distance > MaxScanDistance THEN 0
    ELSE
    LET checkPos == Add(currentPos, Scale(dir, distance))
    IN  IF ~isPositionOnBoard(b, checkPos) THEN 0
        ELSE
        LET isOccupied == isPositionOccupied(b, checkPos)
        IN  IF ~foundPiece
            THEN IF isOccupied
                 THEN IF IsOwnOrigin(checkPos, startPos) THEN 0
                      ELSE _scanJump(b, startPos, currentPos, dir, distance + 1, TRUE, distance)
                 ELSE _scanJump(b, startPos, currentPos, dir, distance + 1, FALSE, pieceDistance)
            ELSE IF isOccupied THEN 0
                 ELSE IF IsLandingDistance(distance, pieceDistance) THEN distance
                 ELSE _scanJump(b, startPos, currentPos, dir, distance + 1, foundPiece,
                                pieceDistance)

RECURSIVE _findMoves(_, _, _, _, _, _)

\* faulty variant: a jump is recorded, the search does not go on from where it lands
_checkJumpNoChain(b, startPos, currentPos, dir, currentPath, st) ==
    LET landing == _scanJump(b, startPos, currentPos, dir, 1, FALSE, 0)
        checkPos == Add(currentPos, Scale(dir, landing))
        newPath == Append(currentPath, checkPos)
    IN  IF landing # 0 /\ NotVisited(st.visited, checkPos)
        THEN [st EXCEPT !.moves = Append(@, createJumpMove(checkPos, newPath))]
        ELSE st

\* faulty variant: each recursive call works on a copy of the visited set, so
\* what it visits is forgotten when it returns
_checkJumpOnCopy(b, startPos, currentPos, dir, currentPath, st) ==
    LET landing == _scanJump(b, startPos, currentPos, dir, 1, FALSE, 0)
        checkPos == Add(currentPos, Scale(dir, landing))
        newPath == Append(currentPath, checkPos)
    IN  IF landing # 0 /\ NotVisited(st.visited, checkPos)
        THEN [_findMoves(b, startPos, checkPos, TRUE, newPath,
                         [st EXCEPT !.moves = Append(@, createJumpMove(checkPos, newPath))])
                 EXCEPT !.visited = st.visited]
        ELSE st

\* _checkJumpInDirection: the loop, and what it does at a landing spot
_checkJumpInDirection(b, startPos, currentPos, dir, currentPath, st) ==
    LET landing == _scanJump(b, startPos, currentPos, dir, 1, FALSE, 0)
        checkPos == Add(currentPos, Scale(dir, landing))
        newPath == Append(currentPath, checkPos)
    IN  IF landing # 0 /\ NotVisited(st.visited, checkPos)
        THEN _findMoves(b, startPos, checkPos, TRUE, newPath,
                        [st EXCEPT !.moves = Append(@, createJumpMove(checkPos, newPath))])
        ELSE st

\* the body of HEX_DIRECTIONS.forEach(dir => ...) in _findMoves
_findMovesDir(b, startPos, currentPos, hasJumped, currentPath, st, dir) ==
    LET adjPos == Add(currentPos, dir)
        st1 == IF StepAllowed(b, adjPos, hasJumped)
               THEN [st EXCEPT !.moves = Append(@, createSimpleMove(adjPos))]
               ELSE st
    IN  _checkJumpInDirection(b, startPos, currentPos, dir, currentPath, st1)

_findMoves(b, startPos, currentPos, hasJumped, currentPath, st) ==
    IF Key(currentPos) \in st.visited THEN st
    ELSE
    LET s0 == [st EXCEPT !.visited = @ \cup {Key(currentPos)},
                         !.explored = Append(@, currentPos)]
        s1 == _findMovesDir(b, startPos, currentPos, hasJumped, currentPath, s0, HEX_DIRECTIONS[1])
        s2 == _findMovesDir(b, startPos, currentPos, hasJumped, currentPath, s1, HEX_DIRECTIONS[2])
        s3 == _findMovesDir(b, startPos, currentPos, hasJumped, currentPath, s2, HEX_DIRECTIONS[3])
        s4 == _findMovesDir(b, startPos, currentPos, hasJumped, currentPath, s3, HEX_DIRECTIONS[4])
        s5 == _findMovesDir(b, startPos, currentPos, hasJumped, currentPath, s4, HEX_DIRECTIONS[5])
        s6 == _findMovesDir(b, startPos, currentPos, hasJumped, currentPath, s5, HEX_DIRECTIONS[6])
    IN  IF Computed(s1) /\ Computed(s2) /\ Computed(s3) /\ Computed(s4) /\ Computed(s5)
        THEN s6 ELSE st

\* faulty variant: the array of moves is kept from one call to the next
SearchAfterLastCall ==
    [visited |-> {},
     moves |-> IF lastOp.op = "findValidMoves" THEN lastOp.result ELSE <<>>,
     explored |-> <<>>]

\* const visited = new Set(); const moves = [];
NewSearch == [visited |-> {}, moves |-> <<>>, explored |-> <<>>]

\* the collections of findValidMoves when its call of _findMoves has returned
SearchFrom(b, startPos) == _findMoves(b, startPos, startPos, FALSE, <<>>, NewSearch)

\* return moves;
findValidMoves(b, startPos) == SearchFrom(b, startPos).moves

\* faulty variant: the piece being moved is taken off its cell for the search
\* and not put back
StateAfterVacatingSearch(s, startPos) ==
    IF Key(startPos) \in DOMAIN s.board
    THEN [s EXCEPT !.board[Key(startPos)].piece = Null]
    ELSE s

\* the game state findValidMoves leaves: the search and the getters it calls
\* (isPositionOnBoard, isPositionOccupied) assign to visited and moves only,
\* both local to the call, and emit nothing
StateAfterSearch(s, startPos) == s

\* faulty variant: the first move of the list, wherever it goes
FindFirstMove(moves, toPos) == IF Len(moves) > 0 THEN 1 ELSE 0

\* validMoves.find(move => move.targetPos.equals(toPos)) || null
\* as the index of the first such move, 0 for null
FindMoveTo(moves, toPos) ==
    LET idx == {i \in 1..Len(moves) : Equals(moves[i].targetPos, toPos)}
    IN  IF idx = {} THEN 0 ELSE CHOOSE i \in idx : \A j \in idx : i <= j

isValidMove(b, fromPos, toPos) == FindMoveTo(findValidMoves(b, fromPos), toPos)

\* ------------------------------------------------------------------------
\* The program state as one record, so that a handler is the composition of
\* the calls it makes
\* ------------------------------------------------------------------------
St == [board |-> board, pieces |-> pieces, players |-> players,
       turnIndex |-> turnIndex, turnOrder |-> turnOrder, matchPhase |-> matchPhase,
       selectedPiece |-> selectedPiece, validMoves |-> validMoves,
       isAnimating |-> isAnimating, pending |-> pending, emitted |-> <<>>,
       listeners |-> listeners]

\* the program state is s
StateIs(s) ==
    /\ board = s.board
    /\ pieces = s.pieces
    /\ players = s.players
    /\ turnIndex = s.turnIndex
    /\ turnOrder = s.turnOrder
    /\ matchPhase = s.matchPhase
    /\ selectedPiece = s.selectedPiece
    /\ validMoves = s.validMoves
    /\ isAnimating = s.isAnimating
    /\ pending = s.pending
    /\ emitted = s.emitted
    /\ listeners = s.listeners

\* the handler leaves the program in state s
Commit(s) ==
    /\ board' = s.board
    /\ pieces' = s.pieces
    /\ players' = s.players
    /\ turnIndex' = s.turnIndex
    /\ turnOrder' = s.turnOrder
    /\ matchPhase' = s.matchPhase
    /\ selectedPiece' = s.selectedPiece
    /\ validMoves' = s.validMoves
    /\ isAnimating' = s.isAnimating
    /\ pending' = s.pending
    /\ emitted' = s.emitted
    /\ listeners' = s.listeners

\* what a listener, called synchronously by emit, finds when it reads the game state
Snapshot(s) ==
    [occupied |-> [k \in {c \in DOMAIN s.board : s.board[c].piece # Null} |-> s.board[k].piece],
     pieces |-> s.pieces,
     piecePositions |-> [i \in 1..Len(s.players) |-> s.players[i].piecePositions],
     turnIndex |-> s.turnIndex, turnOrder |-> s.turnOrder, matchPhase |-> s.matchPhase]

\* EventEmitter: listeners maps an event name to a Set of callbacks, which
\* keeps its elements once each and in the order they were added
\* faulty variant: the callbacks of an event are kept in an array
addToArray(callbacks, callback) == Append(callbacks, callback)

\* Set.add
addToSet(callbacks, callback) ==
    IF \E i \in 1..Len(callbacks) : callbacks[i] = callback THEN callbacks
    ELSE Append(callbacks, callback)

\* Set.delete
deleteFromSet(callbacks, callback) ==
    LET Other(c) == c # callback IN SelectSeq(callbacks, Other)

subscribe(l, event, callback) ==
    LET l1 == IF event \notin DOMAIN l THEN (event :> <<>>) @@ l ELSE l
    IN  [l1 EXCEPT ![event] = addToSet(@, callback)]

unsubscribe(l, event, callback) ==
    IF event \in DOMAIN l THEN [l EXCEPT ![event] = deleteFromSet(@, callback)] ELSE l

\* the callbacks emit calls, in order: listeners.get(event).forEach(...) if
\* listeners.has(event)
Called(l, event) == IF event \in DOMAIN l THEN l[event] ELSE <<>>

\* EventEmitter.emit: the emission is recorded with its payload, with the
\* callbacks it calls and with the state they are called in
emit(s, event, data) ==
    [s EXCEPT !.emitted = Append(@, [event |-> event, data |-> data,
                                     calls |-> Called(s.listeners, event),
                                     seen |-> Snapshot(s)])]

\* ------------------------------------------------------------------------
\* Piece and BoardCell (actors/)
\* ------------------------------------------------------------------------
Piece(position, ownerPlayerIndex) ==
    [position |-> position, ownerPlayerIndex |-> ownerPlayerIndex, isSelected |-> FALSE]

belongsTo(s, piece, playerIndex) == s.pieces[piece].ownerPlayerIndex = playerIndex

\* BoardCell.setPiece on the cell with key k
setPiece(s, k, piece) ==
    [s EXCEPT !.board[k].piece = piece,
              !.pieces = IF piece # Null
                         THEN [@ EXCEPT ![piece].position = s.board[k].position]
                         ELSE @]

\* BoardCell.removePiece on the cell with key k
removePiece(s, k) == [s EXCEPT !.board[k].piece = Null]

select(s, piece) == [s EXCEPT !.pieces[piece].isSelected = TRUE]

deselect(s, piece) == [s EXCEPT !.pieces[piece].isSelected = FALSE]

\* ------------------------------------------------------------------------
\* PlayerState (game/PlayerState.js)
\* ------------------------------------------------------------------------
PlayerState(playerIndex, homeTriangleIndex) ==
    [playerIndex |-> playerIndex,
     homeTriangleIndex |-> homeTriangleIndex,
     goalTriangleIndex |-> getGoalTriangleIndex(homeTriangleIndex),
     piecePositions |-> {}]

addPiecePosition(player, positionKey) ==
    [player EXCEPT !.piecePositions = @ \cup {positionKey}]

\* faulty variant: the old key is kept
keepOldPosition(player, fromKey, toKey) ==
    [player EXCEPT !.piecePositions = @ \cup {toKey}]

updatePiecePosition(player, fromKey, toKey) ==
    [player EXCEPT !.piecePositions = (@ \ {fromKey}) \cup {toKey}]

\* faulty variant: any piece in a goal cell counts
hasFilledGoal(s, player) ==
    \A i \in 1..Len(homeSpaces[player.goalTriangleIndex]) :
        LET pos == homeSpaces[player.goalTriangleIndex][i]
        IN  /\ Key(pos) \in DOMAIN s.board
            /\ s.board[Key(pos)].piece # Null

hasWon(s, player) ==
    \A i \in 1..Len(homeSpaces[player.goalTriangleIndex]) :
        LET pos == homeSpaces[player.goalTriangleIndex][i]
        IN  /\ Key(pos) \in DOMAIN s.board
            /\ s.board[Key(pos)].piece # Null
            /\ s.pieces[s.board[Key(pos)].piece].ownerPlayerIndex = player.homeTriangleIndex

\* ------------------------------------------------------------------------
\* GameState (game/GameState.js)
\* ------------------------------------------------------------------------
\* players.find(p => p.homeTriangleIndex === triangleIndex), as an index; 0: undefined
FindPlayer(s, triangleIndex) ==
    LET idx == {i \in 1..Len(s.players) : s.players[i].homeTriangleIndex = triangleIndex}
    IN  IF idx = {} THEN 0 ELSE CHOOSE i \in idx : \A j \in idx : i <= j

\* get currentPlayerIndex(): turnOrder[turnIndex], zero-based
currentPlayerIndex(s) == s.turnOrder[s.turnIndex + 1]

getCurrentPlayer(s) == FindPlayer(s, currentPlayerIndex(s))

\* faulty variant: the turn passes over a player
nextTurnSkipping(s) ==
    LET s1 == [s EXCEPT !.turnIndex = (s.turnIndex + 2) % Len(s.turnOrder)]
    IN  emit(s1, "turnChanged", [playerIndex |-> currentPlayerIndex(s1)])

nextTurn(s) ==
    LET s1 == [s EXCEPT !.turnIndex = (s.turnIndex + 1) % Len(s.turnOrder)]
    IN  emit(s1, "turnChanged", [playerIndex |-> currentPlayerIndex(s1)])

\* faulty variant: the destination is not looked at
movePieceOntoAny(s, fromPos, toPos) ==
    /\ Key(fromPos) \in DOMAIN s.board
    /\ Key(toPos) \in DOMAIN s.board
    /\ s.board[Key(fromPos)].piece # Null

\* the condition under which movePiece goes on past its early return
movePieceAccepts(s, fromPos, toPos) ==
    /\ Key(fromPos) \in DOMAIN s.board
    /\ Key(toPos) \in DOMAIN s.board
    /\ s.board[Key(fromPos)].piece # Null
    /\ s.board[Key(toPos)].piece = Null

\* movePiece: the state it leaves (its result is movePieceAccepts)
movePiece(s, fromPos, toPos) ==
    IF ~movePieceAccepts(s, fromPos, toPos) THEN s
    ELSE
    LET piece == s.board[Key(fromPos)].piece
        s1 == removePiece(s, Key(fromPos))
        s2 == setPiece(s1, Key(toPos), piece)
        player == FindPlayer(s2, s2.pieces[piece].ownerPlayerIndex)
        s3 == IF player # 0
              THEN [s2 EXCEPT !.players[player] =
                                  updatePiecePosition(@, Key(fromPos), Key(toPos))]
              ELSE s2
    IN  emit(s3, "pieceMoved", [from |-> fromPos, to |-> toPos, piece |-> piece])

placePiece(s, pos, piece) ==
    IF Key(pos) \in DOMAIN s.board THEN setPiece(s, Key(pos), piece) ELSE s

removePieceAt(s, pos) ==
    IF Key(pos) \in DOMAIN s.board THEN removePiece(s, Key(pos)) ELSE s

\* faulty variant: the turn index is left where the last game ended
resetStateKeepingTurn(s) ==
    LET s1 == [s EXCEPT !.matchPhase = "WaitingToStart",
                        !.players = <<>>,
                        !.turnOrder = <<>>,
                        !.board = [k \in DOMAIN s.board |-> [s.board[k] EXCEPT !.piece = Null]]]
    IN  emit(s1, "stateReset", <<>>)

\* GameState.reset
resetState(s) ==
    LET s1 == [s EXCEPT !.turnIndex = 0,
                        !.matchPhase = "WaitingToStart",
                        !.players = <<>>,
                        !.turnOrder = <<>>,
                        !.board = [k \in DOMAIN s.board |-> [s.board[k] EXCEPT !.piece = Null]]]
    IN  emit(s1, "stateReset", <<>>)

\* ------------------------------------------------------------------------
\* GameMode (game/GameMode.js)
\* ------------------------------------------------------------------------
\* the name of the i-th Piece object spawned for the home triangle `home` in
\* the g-th game
PieceId(g, home, i) == (g * 6 + home) * 10 + i

RECURSIVE spawnFrom(_, _, _, _)
\* homeTriangle.forEach(pos => ...) of spawnPiecesForPlayer, from position i on
spawnFrom(s, player, g, i) ==
    LET home == s.players[player].homeTriangleIndex
        homeTriangle == homeSpaces[home]
    IN  IF i > Len(homeTriangle) THEN s
        ELSE
        LET pos == homeTriangle[i]
            piece == PieceId(g, home, i)
            s1 == [s EXCEPT !.pieces = (piece :> Piece(pos, home)) @@ @]
            s2 == placePiece(s1, pos, piece)
            s3 == [s2 EXCEPT !.players[player] = addPiecePosition(@, Key(pos))]
        IN  spawnFrom(s3, player, g, i + 1)

spawnPiecesForPlayer(s, player, g) == spawnFrom(s, player, g, 1)

RECURSIVE spawnAll(_, _, _)
\* players.forEach(playerState => spawnPiecesForPlayer(playerState))
spawnAll(s, player, g) ==
    IF player > Len(s.players) THEN s
    ELSE spawnAll(spawnPiecesForPlayer(s, player, g), player + 1, g)

\* initGame; g numbers the call
initGame(s, playerCount, g) ==
    LET s1 == resetState(s)
        s2 == [s1 EXCEPT !.board = initializeBoard]
        triangleIndices == getPlayerTriangleIndices(playerCount)
        s3 == [s2 EXCEPT !.players = [i \in 1..Len(triangleIndices) |->
                                         PlayerState(i - 1, triangleIndices[i])],
                         !.turnOrder = getTurnOrder(triangleIndices)]
        s4 == spawnAll(s3, 1, g)
    IN  [s4 EXCEPT !.matchPhase = "InProgress"]

\* faulty variant: the players are asked in turn order
checkWinInTurnOrder(s) ==
    LET idx == {j \in 1..Len(s.turnOrder) :
                   hasWon(s, s.players[FindPlayer(s, s.turnOrder[j])])}
    IN  IF idx = {} THEN 0
        ELSE FindPlayer(s, s.turnOrder[CHOOSE j \in idx : \A k \in idx : j <= k])

\* checkWinCondition: the index of the first player that has won, 0 for none
checkWinCondition(s) ==
    LET idx == {i \in 1..Len(s.players) : hasWon(s, s.players[i])}
    IN  IF idx = {} THEN 0 ELSE CHOOSE i \in idx : \A j \in idx : i <= j

\* faulty variant: the match goes on after a win
endMatchUnnoticed(s, winner) == s

endMatch(s, winner) == [s EXCEPT !.matchPhase = "GameOver"]

\* ------------------------------------------------------------------------
\* PlayerController (game/PlayerController.js)
\* ------------------------------------------------------------------------
selectPiece(s, piece) ==
    LET s1 == IF s.selectedPiece # Null THEN deselect(s, s.selectedPiece) ELSE s
        s2 == select([s1 EXCEPT !.selectedPiece = piece], piece)
    IN  [s2 EXCEPT !.validMoves = findValidMoves(s2.board, s2.pieces[piece].position)]

deselectPiece(s) ==
    LET s1 == IF s.selectedPiece # Null
              THEN [deselect(s, s.selectedPiece) EXCEPT !.selectedPiece = Null]
              ELSE s
    IN  [s1 EXCEPT !.validMoves = <<>>]

\* faulty variant: the turn passes on, the win condition is not looked at
onMoveCompleteUnchecked(s) == nextTurn(s)

onMoveComplete(s) ==
    LET s1 == nextTurn(s)
        result == checkWinCondition(s1)
    IN  IF result # 0 THEN endMatch(s1, result) ELSE s1

executeSimpleMove(s, fromPos, toPos) == onMoveComplete(movePiece(s, fromPos, toPos))

\* a started animation: what its completion callback holds
Animation(fromPos, toPos, piece) == [fromPos |-> fromPos, toPos |-> toPos, piece |-> piece]

\* executeJumpMove up to the return of renderer.animateJumpPath: the path has
\* at least two positions, so the callback is left to a later animation frame
executeJumpMove(s, fromPos, toPos, piece, jumpPath) ==
    LET s1 == [s EXCEPT !.isAnimating = TRUE]
        s2 == removePieceAt(s1, fromPos)
    IN  [s2 EXCEPT !.pending = @ \cup {Animation(fromPos, toPos, piece)}]

\* the completion callback of executeJumpMove
animationCallback(s, a) ==
    LET s1 == placePiece(s, a.toPos, a.piece)
        player == FindPlayer(s1, s1.pieces[a.piece].ownerPlayerIndex)
        s2 == IF player # 0
              THEN [s1 EXCEPT !.players[player] =
                                  updatePiecePosition(@, Key(a.fromPos), Key(a.toPos))]
              ELSE s1
        s3 == [s2 EXCEPT !.isAnimating = FALSE]
    IN  onMoveComplete(s3)

IsAnimatedMove(move) == move.type = "jump" /\ Len(move.jumpPath) > 0

requestMove(s, move) ==
    LET fromPos == s.pieces[s.selectedPiece].position
        toPos == move.targetPos
        piece == s.selectedPiece
        s1 == [deselect(s, s.selectedPiece) EXCEPT !.selectedPiece = Null,
                                                   !.validMoves = <<>>]
    IN  IF IsAnimatedMove(move)
        THEN executeJumpMove(s1, fromPos, toPos, piece, move.jumpPath)
        ELSE executeSimpleMove(s1, fromPos, toPos)

CanSelect(s, clickedPiece) ==
    clickedPiece # Null /\ belongsTo(s, clickedPiece, currentPlayerIndex(s))

handleClick(s, clickedPos) ==
    IF ~isPositionOnBoard(s.board, clickedPos) THEN s
    ELSE
    LET clickedPiece == getPieceAt(s.board, clickedPos)
    IN  IF s.selectedPiece # Null
        THEN LET move == FindMoveTo(s.validMoves, clickedPos)
             IN  IF move # 0 THEN requestMove(s, s.validMoves[move])
                 ELSE IF CanSelect(s, clickedPiece) THEN selectPiece(s, clickedPiece)
                 ELSE deselectPiece(s)
        ELSE IF CanSelect(s, clickedPiece) THEN selectPiece(s, clickedPiece)
             ELSE s

\* if (this.isAnimating) return;
ClickIgnored(s) == s.isAnimating

_handleClick(s, clickedPos) ==
    IF ClickIgnored(s) THEN s ELSE handleClick(s, clickedPos)

\* PlayerController.reset
resetController(s) ==
    LET s1 == IF s.selectedPiece # Null THEN deselect(s, s.selectedPiece) ELSE s
    IN  [s1 EXCEPT !.selectedPiece = Null, !.validMoves = <<>>, !.isAnimating = FALSE]

\* GameMode.resetGame
resetGame(s, g) ==
    LET playerCount == Len(s.players)
    IN  resetController(initGame(s, IF playerCount > 0 THEN playerCount ELSE 2, g))

\* GameMode.setPlayerCount
setPlayerCount(s, count, g) == resetController(initGame(s, count, g))

\* Piece objects nothing refers to any more are dropped
Collect(s) ==
    LET live == {s.board[k].piece : k \in DOMAIN s.board}
                  \cup {a.piece : a \in s.pending} \cup {s.selectedPiece}
    IN  [s EXCEPT !.pieces = [id \in (DOMAIN @) \cap live |-> @[id]]]

\* ------------------------------------------------------------------------
\* Specification Spec: the application and its user
\* ------------------------------------------------------------------------
\* the state after the constructors of Application.initialize have run
Constructed ==
    /\ board = <<>>
    /\ pieces = <<>>
    /\ players = <<>>
    /\ turnIndex = 0
    /\ turnOrder = <<>>
    /\ matchPhase = "WaitingToStart"
    /\ selectedPiece = Null
    /\ validMoves = <<>>
    /\ isAnimating = FALSE
    /\ pending = {}
    /\ emitted = <<>>
    /\ listeners = <<>>
    /\ gameNo = 0
    /\ moveNo = 0

Init == Constructed /\ lastOp = [op |-> "construct"]

\* the options of the player count selector
PlayerCounts == 2..6

HexDistance(a, b) ==
    LET dq == a[1] - b[1]
        dr == a[2] - b[2]
        m == IF Abs(dq) >= Abs(dr) THEN Abs(dq) ELSE Abs(dr)
    IN  IF m >= Abs(dq + dr) THEN m ELSE Abs(dq + dr)

\* a corner of the base of home triangle 3 and the six positions around it:
\* three pieces of the first player to move, two empty cells in front of them
\* and two positions off the board
Corner3 == {p \in (-9..9) \X (-9..9) : HexDistance(p, homeSpaces[3][7]) <= 1}

\* the same corner of the opposite triangle
Corner0 == {HexPosition(-p[1], -p[2]) : p \in Corner3}

\* where the clicks of the model land
ClickPositions == Corner3 \cup Corner0

\* Application.initialize: initGame(2), then the DOM bindings
Initialize ==
    /\ gameNo = 0
    /\ Commit(Collect(initGame(St, 2, 1)))
    /\ gameNo' = 1
    /\ lastOp' = [op |-> "initialize"]
    /\ UNCHANGED moveNo

\* whether a click at pos goes on to requestMove
ClickRequestsMove(s, pos) ==
    /\ ~ClickIgnored(s)
    /\ isPositionOnBoard(s.board, pos)
    /\ s.selectedPiece # Null
    /\ FindMoveTo(s.validMoves, pos) # 0

\* a click on the canvas
CanvasClick(pos) ==
    /\ gameNo >= 1
    /\ ClickRequestsMove(St, pos) => moveNo < MaxMoves
    /\ Commit(Collect(_handleClick(St, pos)))
    /\ moveNo' = IF ClickRequestsMove(St, pos) THEN moveNo + 1 ELSE moveNo
    /\ lastOp' = [op |-> "click", animating |-> pending # {}]
    /\ UNCHANGED gameNo

\* the animation frame in which a jump animation ends and calls back
AnimationComplete(a) ==
    /\ a \in pending
    /\ Commit(Collect(animationCallback([St EXCEPT !.pending = @ \ {a}], a)))
    /\ lastOp' = [op |-> "animationComplete", animation |-> a]
    /\ UNCHANGED <<gameNo, moveNo>>

\* the reset button: Application.resetGame
ResetButton ==
    /\ gameNo >= 1
    /\ gameNo < MaxGames
    /\ Commit(Collect(resetGame(St, gameNo + 1)))
    /\ gameNo' = gameNo + 1
    /\ lastOp' = [op |-> "reset"]
    /\ UNCHANGED moveNo

\* the player count selector: Application.setPlayerCount
PlayerCountChange(count) ==
    /\ gameNo >= 1
    /\ gameNo < MaxGames
    /\ Commit(Collect(setPlayerCount(St, count, gameNo + 1)))
    /\ gameNo' = gameNo + 1
    /\ lastOp' = [op |-> "setPlayerCount", count |-> count]
    /\ UNCHANGED moveNo

Next ==
    \/ Initialize
    \/ \E pos \in ClickPositions : CanvasClick(pos)
    \/ \E a \in pending : AnimationComplete(a)
    \/ ResetButton
    \/ \E count \in PlayerCounts : PlayerCountChange(count)

Spec == Init /\ [][Next]_vars

\* ------------------------------------------------------------------------
\* Specification SpecEngine: move queries on arbitrary occupancies
\* ------------------------------------------------------------------------
\* the cell next to the corner (4,0) of the hexagon, behind which the board ends
EngineCentre == HexPosition(3, 0)

\* p comes before x: it is nearer to EngineCentre, or as near and before x in
\* row order
NearerCentre(p, x) ==
    \/ HexDistance(p, EngineCentre) < HexDistance(x, EngineCentre)
    \/ /\ HexDistance(p, EngineCentre) = HexDistance(x, EngineCentre)
       /\ (p[2] < x[2] \/ (p[2] = x[2] /\ p[1] < x[1]))

\* where the pieces of a query stand: the RegionSize cells nearest to EngineCentre
EngineRegion ==
    {p \in AllCells : Cardinality({x \in AllCells : NearerCentre(x, p)}) < RegionSize}

\* the positions of a set in row order, as a sequence
RECURSIVE SortedSeq(_)
SortedSeq(S) ==
    IF S = {} THEN <<>>
    ELSE LET m == CHOOSE p \in S : \A x \in S :
                      p[2] < x[2] \/ (p[2] = x[2] /\ p[1] <= x[1])
         IN  <<m>> \o SortedSeq(S \ {m})

\* a two-player game in which the triangle-3 player has brought Len(cells) pieces,
\* those of the base of the home triangle first, to the given cells
RECURSIVE Relocate(_, _, _)
Relocate(s, cells, i) ==
    IF i > Len(cells) THEN s
    ELSE Relocate(movePiece(s, homeSpaces[3][Len(homeSpaces[3]) + 1 - i], cells[i]),
                  cells, i + 1)

EmptyState ==
    [board |-> <<>>, pieces |-> <<>>, players |-> <<>>, turnIndex |-> 0,
     turnOrder |-> <<>>, matchPhase |-> "WaitingToStart", selectedPiece |-> Null,
     validMoves |-> <<>>, isAnimating |-> FALSE, pending |-> {}, emitted |-> <<>>,
     listeners |-> <<>>]

\* the two-player game as initGame(2) leaves it
TwoPlayerStart == initGame(EmptyState, 2, 1)

MidGame(S) == Relocate(TwoPlayerStart, SortedSeq(S), 1)

InitEngine ==
    \E S \in SUBSET EngineRegion :
        /\ S # {}
        /\ Cardinality(S) <= MaxPieces
        /\ \E start \in S \cup {homeSpaces[3][1]} :
            /\ StateIs([MidGame(S) EXCEPT !.emitted = <<>>])
            /\ lastOp = [op |-> "setup", start |-> start]
            /\ gameNo = 1
            /\ moveNo = 0

\* MoveCalculator.findValidMoves(start): a query, nothing is assigned; explored
\* lists the coordinates the search has scanned from
QueryMoves ==
    /\ lastOp.op = "setup"
    /\ \E search \in {SearchFrom(board, lastOp.start)} :
          lastOp' = [op |-> "findValidMoves", start |-> lastOp.start,
                     result |-> search.moves, explored |-> search.explored]
    /\ UNCHANGED <<board, pieces, players, turnIndex, turnOrder, matchPhase,
                   selectedPiece, validMoves, isAnimating, pending, emitted,
                   listeners, gameNo, moveNo>>

NextEngine == QueryMoves

SpecEngine == InitEngine /\ [][NextEngine]_vars

\* ------------------------------------------------------------------------
\* Specification SpecApi: direct calls of the GameState interface
\* ------------------------------------------------------------------------
\* the positions of the calls
ApiPositions == Corner3

InitApi ==
    \E count \in PlayerCounts :
        /\ StateIs([initGame(EmptyState, count, 1) EXCEPT !.emitted = <<>>])
        /\ lastOp = [op |-> "initGame", count |-> count]
        /\ gameNo = 1
        /\ moveNo = 0

\* gameState.movePiece(fromPos, toPos)
ApiMovePiece(fromPos, toPos) ==
    /\ moveNo < MaxCalls
    /\ Commit(movePiece(St, fromPos, toPos))
    /\ moveNo' = moveNo + 1
    /\ lastOp' = [op |-> "movePiece", from |-> fromPos, to |-> toPos,
                  result |-> movePieceAccepts(St, fromPos, toPos)]
    /\ UNCHANGED gameNo

\* gameState.nextTurn()
ApiNextTurn ==
    /\ Commit(nextTurn(St))
    /\ lastOp' = [op |-> "nextTurn"]
    /\ UNCHANGED <<gameNo, moveNo>>

NextApi ==
    \/ \E fromPos \in ApiPositions : \E toPos \in ApiPositions : ApiMovePiece(fromPos, toPos)
    \/ ApiNextTurn

SpecApi == InitApi /\ [][NextApi]_vars

\* ------------------------------------------------------------------------
\* Specification SpecConfig: the configuration functions, initGame with any
\* count, and the turns that follow
\* ------------------------------------------------------------------------
\* a JavaScript value: a number, or a value of another type
JsNumber(n) == [type |-> "number", value |-> n]

\* what a caller can hand over for a player count: the numbers from -2 on, a
\* string and undefined
CountInputs ==
    {JsNumber(n) : n \in (-2)..MaxCountInput}
        \cup {[type |-> "string", text |-> "2"], [type |-> "undefined"]}

\* switch (playerCount) compares with ===: a value that is not a number
\* equals none of the case labels and takes the default branch
playerTriangleIndicesOf(v) ==
    IF v.type = "number" THEN getPlayerTriangleIndices(v.value)
    ELSE <<0, 1, 2, 3, 4, 5>>

InitConfig ==
    \E v \in CountInputs :
        /\ StateIs(EmptyState)
        /\ lastOp = [op |-> "setup", input |-> v]
        /\ gameNo = 0
        /\ moveNo = 0

\* GameConfig.getPlayerTriangleIndices(input)
CallTriangleIndices ==
    /\ lastOp.op = "setup"
    /\ lastOp' = [op |-> "getPlayerTriangleIndices", input |-> lastOp.input,
                  result |-> playerTriangleIndicesOf(lastOp.input)]
    /\ UNCHANGED <<board, pieces, players, turnIndex, turnOrder, matchPhase,
                   selectedPiece, validMoves, isAnimating, pending, emitted,
                   listeners, gameNo, moveNo>>

\* TriangleGenerator.generateTriangle(input), called twice
CallGenerateTriangle ==
    /\ lastOp.op = "setup"
    /\ lastOp.input.type = "number"
    /\ lastOp.input.value \in 0..5
    /\ lastOp' = [op |-> "generateTriangle", input |-> lastOp.input,
                  result |-> generateTriangle(lastOp.input.value),
                  again |-> generateTriangle(lastOp.input.value)]
    /\ UNCHANGED <<board, pieces, players, turnIndex, turnOrder, matchPhase,
                   selectedPiece, validMoves, isAnimating, pending, emitted,
                   listeners, gameNo, moveNo>>

\* gameMode.initGame(input); visited lists the current players seen since
CallInitGame ==
    /\ lastOp.op = "setup"
    /\ lastOp.input.type = "number"
    /\ Commit(initGame(St, lastOp.input.value, 1))
    /\ gameNo' = 1
    /\ lastOp' = [op |-> "initGame", input |-> lastOp.input,
                  visited |-> <<currentPlayerIndex(initGame(St, lastOp.input.value, 1))>>]
    /\ UNCHANGED moveNo

\* gameState.nextTurn()
CallNextTurn ==
    /\ lastOp.op \in {"initGame", "nextTurn"}
    /\ Len(lastOp.visited) <= MaxTurns
    /\ Commit(nextTurn(St))
    /\ lastOp' = [op |-> "nextTurn", input |-> lastOp.input,
                  visited |-> Append(lastOp.visited, currentPlayerIndex(nextTurn(St)))]
    /\ UNCHANGED <<gameNo, moveNo>>

NextConfig ==
    \/ CallTriangleIndices
    \/ CallGenerateTriangle
    \/ CallInitGame
    \/ CallNextTurn

SpecConfig == InitConfig /\ [][NextConfig]_vars

\* ------------------------------------------------------------------------
\* Specification SpecQuery: queries of the board and of the move calculator
\* at any coordinates, on and off the board, in the opening position of two
\* players
\* ------------------------------------------------------------------------
QueryPositions == ((-MaxCoord)..MaxCoord) \X ((-MaxCoord)..MaxCoord)

\* the starts of the move queries: a corner of triangle 3 with three pieces,
\* two empty cells and two positions off the board
QueryStarts == Corner3

InitQuery ==
    /\ StateIs([TwoPlayerStart EXCEPT !.emitted = <<>>])
    /\ lastOp = [op |-> "setup", answers |-> <<>>]
    /\ gameNo = 1
    /\ moveNo = 0

\* moveCalculator.findValidMoves(start); answers lists the queries of the run
\* with what they returned
CallFindValidMoves(start) ==
    /\ lastOp.op \in {"setup", "findValidMoves"}
    /\ Len(lastOp.answers) < MaxQueries
    /\ \E moves \in {findValidMoves(board, start)} :
          lastOp' = [op |-> "findValidMoves", start |-> start, result |-> moves,
                     answers |-> Append(lastOp.answers,
                                        [start |-> start, result |-> moves])]
    /\ Commit(StateAfterSearch(St, start))
    /\ UNCHANGED <<gameNo, moveNo>>

\* moveCalculator.isValidMove(fromPos, toPos): the index of the move found, 0
\* for null
CallIsValidMove(fromPos, toPos) ==
    /\ lastOp.op = "setup"
    /\ lastOp' = [op |-> "isValidMove", start |-> fromPos, to |-> toPos,
                  result |-> isValidMove(board, fromPos, toPos)]
    /\ Commit(StateAfterSearch(St, fromPos))
    /\ UNCHANGED <<gameNo, moveNo>>

\* gameState.isPositionOccupied(pos) and gameState.getPieceAt(pos)
CallBoardQuery(pos) ==
    /\ lastOp.op = "setup"
    /\ lastOp' = [op |-> "boardQuery", pos |-> pos,
                  isPositionOccupied |-> isPositionOccupied(board, pos),
                  getPieceAt |-> getPieceAt(board, pos)]
    /\ UNCHANGED <<board, pieces, players, turnIndex, turnOrder, matchPhase,
                   selectedPiece, validMoves, isAnimating, pending, emitted,
                   listeners, gameNo, moveNo>>

\* gameState.removePieceAt(pos): cell ? cell.removePiece() : null
CallRemovePieceAt(pos) ==
    /\ lastOp.op = "setup"
    /\ Commit(removePieceAt(St, pos))
    /\ lastOp' = [op |-> "removePieceAt", pos |-> pos,
                  result |-> IF Key(pos) \in DOMAIN board THEN board[Key(pos)].piece
                             ELSE Null]
    /\ UNCHANGED <<gameNo, moveNo>>

\* HexPosition.fromKey(pos.key)
CallFromKey(pos) ==
    /\ lastOp.op = "setup"
    /\ lastOp' = [op |-> "fromKey", pos |-> pos, key |-> Key(pos),
                  result |-> HexPositionFromKey(Key(pos))]
    /\ UNCHANGED <<board, pieces, players, turnIndex, turnOrder, matchPhase,
                   selectedPiece, validMoves, isAnimating, pending, emitted,
                   listeners, gameNo, moveNo>>

NextQuery ==
    \/ \E start \in QueryStarts : CallFindValidMoves(start)
    \/ \E fromPos, toPos \in QueryStarts : CallIsValidMove(fromPos, toPos)
    \/ \E pos \in QueryPositions : CallBoardQuery(pos)
    \/ \E pos \in QueryPositions : CallRemovePieceAt(pos)
    \/ \E pos \in QueryPositions : CallFromKey(pos)

SpecQuery == InitQuery /\ [][NextQuery]_vars

\* ------------------------------------------------------------------------
\* Specification SpecMove: the moves of a piece are asked for, and then one
\* of them is made with movePiece, or isValidMove is asked about a cell
\* ------------------------------------------------------------------------
\* where the pieces stand: the MoveRegionSize cells nearest to EngineCentre
MoveRegion ==
    {p \in AllCells : Cardinality({x \in AllCells : NearerCentre(x, p)}) < MoveRegionSize}

InitMove ==
    \E S \in SUBSET MoveRegion :
        /\ S # {}
        /\ Cardinality(S) <= MaxMovers
        /\ \E start \in S :
            /\ StateIs([MidGame(S) EXCEPT !.emitted = <<>>])
            /\ lastOp = [op |-> "setup", start |-> start]
            /\ gameNo = 1
            /\ moveNo = 0

\* gameState.movePiece(start, move.targetPos) for the i-th move returned
MoveExecute(i) ==
    /\ lastOp.op = "findValidMoves"
    /\ i \in 1..Len(lastOp.result)
    /\ Commit(movePiece(St, lastOp.start, lastOp.result[i].targetPos))
    /\ lastOp' = [op |-> "movePiece", from |-> lastOp.start,
                  to |-> lastOp.result[i].targetPos, move |-> lastOp.result[i],
                  result |-> movePieceAccepts(St, lastOp.start, lastOp.result[i].targetPos)]
    /\ UNCHANGED <<gameNo, moveNo>>

\* the cells isValidMove is asked about: the start, the six positions around
\* it and the targets of the moves returned
MoveProbes ==
    {lastOp.start} \cup {Add(lastOp.start, HEX_DIRECTIONS[d]) : d \in 1..Len(HEX_DIRECTIONS)}
        \cup {lastOp.result[i].targetPos : i \in 1..Len(lastOp.result)}

\* moveCalculator.isValidMove(start, toPos) on the board of the query: the
\* index of the move found, 0 for null; moves is what findValidMoves returned
MoveIsValid(toPos) ==
    /\ lastOp.op = "findValidMoves"
    /\ lastOp' = [op |-> "isValidMove", start |-> lastOp.start, to |-> toPos,
                  moves |-> lastOp.result,
                  result |-> isValidMove(board, lastOp.start, toPos)]
    /\ Commit(StateAfterSearch(St, lastOp.start))
    /\ UNCHANGED <<gameNo, moveNo>>

NextMove ==
    \/ QueryMoves
    \/ lastOp.op = "findValidMoves" /\ \E i \in 1..Len(lastOp.result) : MoveExecute(i)
    \/ lastOp.op = "findValidMoves" /\ \E toPos \in MoveProbes : MoveIsValid(toPos)

SpecMove == InitMove /\ [][NextMove]_vars

\* ------------------------------------------------------------------------
\* Specification SpecEvents: the event emitter of the game state, with
\* callbacks that are subscribed and unsubscribed between turns and games.
\* A callback is a function that returns; it calls nothing of the game.
\* ------------------------------------------------------------------------
EventNames == {"turnChanged", "stateReset"}

Callbacks == {"onFirst", "onSecond"}

\* history lists the calls of subscribe and unsubscribe made so far
InitEvents ==
    /\ StateIs([TwoPlayerStart EXCEPT !.emitted = <<>>])
    /\ lastOp = [op |-> "setup", history |-> <<>>]
    /\ gameNo = 1
    /\ moveNo = 0

\* gameState.events.subscribe(event, callback)
EventsSubscribe(event, callback) ==
    /\ Len(lastOp.history) < MaxSubscriptions
    /\ Commit([St EXCEPT !.listeners = subscribe(@, event, callback)])
    /\ lastOp' = [op |-> "subscribe",
                  history |-> Append(lastOp.history,
                                     [call |-> "subscribe", event |-> event,
                                      callback |-> callback])]
    /\ UNCHANGED <<gameNo, moveNo>>

\* gameState.events.unsubscribe(event, callback)
EventsUnsubscribe(event, callback) ==
    /\ Len(lastOp.history) < MaxSubscriptions
    /\ Commit([St EXCEPT !.listeners = unsubscribe(@, event, callback)])
    /\ lastOp' = [op |-> "unsubscribe",
                  history |-> Append(lastOp.history,
                                     [call |-> "unsubscribe", event |-> event,
                                      callback |-> callback])]
    /\ UNCHANGED <<gameNo, moveNo>>

\* gameState.nextTurn()
EventsNextTurn ==
    /\ Commit(nextTurn(St))
    /\ lastOp' = [op |-> "nextTurn", history |-> lastOp.history]
    /\ UNCHANGED <<gameNo, moveNo>>

\* gameMode.resetGame(), which calls initGame and with it gameState.reset()
EventsResetGame ==
    /\ gameNo < MaxGames
    /\ Commit(Collect(resetGame(St, gameNo + 1)))
    /\ gameNo' = gameNo + 1
    /\ lastOp' = [op |-> "reset", history |-> lastOp.history]
    /\ UNCHANGED moveNo

NextEvents ==
    \/ \E event \in EventNames : \E callback \in Callbacks : EventsSubscribe(event, callback)
    \/ \E event \in EventNames : \E callback \in Callbacks : EventsUnsubscribe(event, callback)
    \/ EventsNextTurn
    \/ EventsResetGame

SpecEvents == InitEvents /\ [][NextEvents]_vars

\* ------------------------------------------------------------------------
\* Specification SpecWin: the win check on the positions at the end of a game
\* ------------------------------------------------------------------------
\* ten cells of the centre, where the pieces of a triangle wait
Parking == [i \in 1..10 |-> IF i <= 9 THEN HexPosition(i - 5, 0) ELSE HexPosition(0, 1)]

\* movePiece(froms[i], tos[i]) for i, i+1, ... in turn, the index skip left out
\* (the test of s1 makes the evaluation finish one call before the next)
RECURSIVE MoveAll(_, _, _, _, _)
MoveAll(s, froms, tos, skip, i) ==
    IF i > Len(froms) THEN s
    ELSE LET s1 == IF i = skip THEN s ELSE movePiece(s, froms[i], tos[i])
         IN  IF Len(s1.emitted) >= 0 THEN MoveAll(s1, froms, tos, skip, i + 1) ELSE s

\* a game of n players in which the pieces of player p have crossed to the
\* goal triangle, but for the piece of home cell m (m = 0: all have crossed).
\* swap: the pieces of the opposite player have crossed too; intruder: the
\* goal cell m is held by a piece of another player
EndGame(n, p, m, swap, intruder) ==
    LET s0 == initGame(EmptyState, n, 1)
        home == s0.players[p].homeTriangleIndex
        goal == s0.players[p].goalTriangleIndex
        opp == FindPlayer(s0, goal)
        s1 == IF opp # 0 THEN MoveAll(s0, homeSpaces[goal], Parking, 0, 1) ELSE s0
        s2 == MoveAll(s1, homeSpaces[home], homeSpaces[goal], m, 1)
        s3 == IF opp # 0 /\ swap
              THEN MoveAll(s2, Parking, homeSpaces[home], m, 1)
              ELSE s2
        other == s0.players[(p % n) + 1].homeTriangleIndex
        s4 == IF intruder /\ m # 0
              THEN movePiece(s3, IF opp # 0 THEN Parking[m] ELSE homeSpaces[other][1],
                             homeSpaces[goal][m])
              ELSE s3
    IN  [s4 EXCEPT !.emitted = <<>>]

InitWin ==
    \E n \in PlayerCounts : \E p \in 1..Len(getPlayerTriangleIndices(n)) :
        \E m \in 0..Len(baseTriangle) : \E swap \in BOOLEAN : \E intruder \in BOOLEAN :
            /\ intruder => m # 0
            /\ swap => getGoalTriangleIndex(getPlayerTriangleIndices(n)[p])
                            \in SeqRange(getPlayerTriangleIndices(n))
            /\ StateIs(EndGame(n, p, m, swap, intruder))
            /\ lastOp = [op |-> "setup"]
            /\ gameNo = 1
            /\ moveNo = 0

\* gameMode.checkWinCondition(), which asks playerState.hasWon(gameState) of
\* the players: a query, nothing is assigned
CheckWin ==
    /\ lastOp.op = "setup"
    /\ lastOp' = [op |-> "checkWinCondition",
                  hasWon |-> [i \in 1..Len(players) |-> hasWon(St, players[i])],
                  result |-> checkWinCondition(St)]
    /\ UNCHANGED <<board, pieces, players, turnIndex, turnOrder, matchPhase,
                   selectedPiece, validMoves, isAnimating, pending, emitted,
                   listeners, gameNo, moveNo>>

NextWin == CheckWin

SpecWin == InitWin /\ [][NextWin]_vars

\* ------------------------------------------------------------------------
\* Specification SpecEndgame: the application from its start, from the
\* opening position that initGame(n) leaves for any n, and from
\* positions in which the player of triangle 3, who is to move, has all
\* pieces but one in the goal triangle and the last one a move away from it
\* ------------------------------------------------------------------------
\* the goal cell left open and the cell the last piece stands on: a step from
\* (1,-4) to (1,-5), or a jump from (0,-4) over (1,-5) to (2,-6)
LastMoves == {<<7, HexPosition(1, -4)>>, <<4, HexPosition(0, -4)>>}

\* where a piece of the opening position stands in the endgame: the pieces
\* of triangle 3 on the cells of triangle 0, but for the piece of home cell m,
\* which stands on fromPos; those of triangle 0 in the centre (Parking) or,
\* with swap, on the cells of triangle 3 that the others have left
EndgamePosition(owner, i, m, fromPos, swap) ==
    IF owner = 3 THEN (IF i = m THEN fromPos ELSE homeSpaces[0][i])
    ELSE IF owner = 0 THEN (IF swap /\ i # m THEN homeSpaces[3][i] ELSE Parking[i])
    ELSE homeSpaces[owner][i]

\* the game of n players after those moves
NearWin(n, m, fromPos, swap) ==
    LET s0 == initGame(EmptyState, n, 1)
        to == [id \in DOMAIN s0.pieces |->
                  LET owner == s0.pieces[id].ownerPlayerIndex
                  IN  EndgamePosition(owner, id - PieceId(1, owner, 0), m, fromPos, swap)]
    IN  [s0 EXCEPT
            !.pieces = [id \in DOMAIN s0.pieces |-> [s0.pieces[id] EXCEPT !.position = to[id]]],
            !.board = [k \in DOMAIN s0.board |->
                          [s0.board[k] EXCEPT !.piece =
                              IF \E id \in DOMAIN s0.pieces : Key(to[id]) = k
                              THEN CHOOSE id \in DOMAIN s0.pieces : Key(to[id]) = k
                              ELSE Null]],
            !.players = [i \in 1..Len(s0.players) |->
                            [s0.players[i] EXCEPT !.piecePositions =
                                {Key(to[id]) : id \in {x \in DOMAIN s0.pieces :
                                    s0.pieces[x].ownerPlayerIndex
                                        = s0.players[i].homeTriangleIndex}}]],
            !.emitted = <<>>]

InitEndgame ==
    \/ Init
    \/ \E v \in CountInputs :
          /\ v.type = "number"
          /\ StateIs([initGame(EmptyState, v.value, 1) EXCEPT !.emitted = <<>>])
          /\ lastOp = [op |-> "initGame", input |-> v]
          /\ gameNo = 1
          /\ moveNo = 0
    \/ \E n \in PlayerCounts : \E mv \in LastMoves : \E swap \in BOOLEAN :
          /\ swap => 0 \in SeqRange(getPlayerTriangleIndices(n))
          /\ StateIs(NearWin(n, mv[1], mv[2], swap))
          /\ lastOp = [op |-> "setup"]
          /\ gameNo = 1
          /\ moveNo = 0

\* where the clicks land: the corner of triangle 0 in which the last move is
\* made, a base cell of triangle 3 and a cell in front of it
EndgameClicks == Corner0 \cup {HexPosition(-1, 5), HexPosition(0, 4)}

NextEndgame ==
    \/ Initialize
    \/ \E pos \in EndgameClicks : CanvasClick(pos)
    \/ \E a \in pending : AnimationComplete(a)
    \/ ResetButton
    \/ \E count \in PlayerCounts : PlayerCountChange(count)

SpecEndgame == InitEndgame /\ [][NextEndgame]_vars

\* ------------------------------------------------------------------------
\* Properties of findValidMoves, under SpecEngine
\* ------------------------------------------------------------------------
\* a query has been answered; its start is lastOp.start, its answer lastOp.result
Queried == lastOp.op = "findValidMoves"

Directions == SeqRange(HEX_DIRECTIONS)

\* the distances a pivot can have: twice the distance is within the scan
PivotDistances == 1..(MaxScanDistance \div 2)

OnBoard(p) == p \in AllCells

Holds(p) == OnBoard(p) /\ board[Key(p)].piece # Null

Free(p) == OnBoard(p) /\ board[Key(p)].piece = Null

StepsTo(p) ==
    {i \in 1..Len(lastOp.result) :
        lastOp.result[i].type = "move" /\ lastOp.result[i].targetPos = p}

JumpsTo(p) ==
    {i \in 1..Len(lastOp.result) :
        lastOp.result[i].type = "jump" /\ lastOp.result[i].targetPos = p}

\* the rule of a single jump, read off the board: from `from`, in direction dir,
\* the first piece met stands at distance d and is not on the origin of the
\* moving piece, the cells behind it are empty up to distance 2d, and the cell
\* at distance 2d is an empty cell of the board
LegalHop(origin, from, dir, d) ==
    /\ \A k \in 1..(d - 1) : Free(Add(from, Scale(dir, k)))
    /\ Holds(Add(from, Scale(dir, d)))
    /\ Add(from, Scale(dir, d)) # origin
    /\ \A k \in (d + 1)..(2 * d - 1) : Free(Add(from, Scale(dir, k)))
    /\ Free(Add(from, Scale(dir, 2 * d)))

\* the same without the condition on the cells between the pivot and the landing
LooseHop(origin, from, dir, d) ==
    /\ \A k \in 1..(d - 1) : Free(Add(from, Scale(dir, k)))
    /\ Holds(Add(from, Scale(dir, d)))
    /\ Add(from, Scale(dir, d)) # origin
    /\ Free(Add(from, Scale(dir, 2 * d)))

\* where one legal jump from `from` can land
HopsFrom(origin, from) ==
    {Add(from, Scale(x[1], 2 * x[2])) :
        x \in {y \in Directions \X PivotDistances : LegalHop(origin, from, y[1], y[2])}}

RECURSIVE JumpClosure(_, _)
JumpClosure(origin, R) ==
    LET more == UNION {HopsFrom(origin, f) : f \in R} \ R
    IN  IF more = {} THEN R ELSE JumpClosure(origin, R \cup more)

\* the cells a finite chain of legal jumps reaches from the origin
Reachable(origin) == JumpClosure(origin, {origin}) \ {origin}

\* a cell two different cells of the chains jump to
Convergent(origin, t) ==
    \E f1, f2 \in JumpClosure(origin, {origin}) :
        f1 # f2 /\ t \in HopsFrom(origin, f1) /\ t \in HopsFrom(origin, f2)

\* C1: the list findValidMoves returns for an occupied cell of the board has no
\* two moves, steps or jumps, with the same targetPos
C1_NoDuplicateTargets ==
    Queried =>
        \A i, j \in 1..Len(lastOp.result) :
            lastOp.result[i].targetPos = lastOp.result[j].targetPos => i = j

\* C1 case: the answer has steps and jumps, and two jump chains meet in one cell
C1_Witness ==
    /\ Queried
    /\ \E i, j \in 1..Len(lastOp.result) :
            lastOp.result[i].type = "move" /\ lastOp.result[j].type = "jump"
    /\ \E t \in Reachable(lastOp.start) : Convergent(lastOp.start, t)

\* C2: chain closure: every cell a finite chain of legal single jumps reaches
\* from the start, on the unchanged board, is the target of exactly one jump
\* move of the answer
C2_ChainClosure ==
    Queried => \A t \in Reachable(lastOp.start) : Cardinality(JumpsTo(t)) = 1

\* C2 case: a cell that needs a chain of more than one jump and that two
\* different cells of the chains jump to
C2_Witness ==
    /\ Queried
    /\ \E t \in Reachable(lastOp.start) \ HopsFrom(lastOp.start, lastOp.start) :
            /\ Convergent(lastOp.start, t)
            /\ Cardinality(JumpsTo(t)) = 1

\* a move of the answer that is the single jump from the start to p
DirectJumpTo(p) ==
    \E i \in 1..Len(lastOp.result) :
        lastOp.result[i].type = "jump" /\ lastOp.result[i].jumpPath = <<p>>

\* C3 (as corrected): from the start, when the cells at distances 1..d-1 in
\* direction D are empty, the cell at distance d is occupied, the cells at
\* distances d+1..2d-1 are empty and the cell at distance 2d is an empty cell of
\* the board, the answer has a jump to the cell at distance 2d; and a move that
\* is one jump from the start lands at some distance 2d in some direction D for
\* which all this holds
C3_JumpSymmetry ==
    Queried =>
        /\ \A dir \in Directions : \A d \in PivotDistances :
              LegalHop(lastOp.start, lastOp.start, dir, d)
                  => JumpsTo(Add(lastOp.start, Scale(dir, 2 * d))) # {}
        /\ \A i \in 1..Len(lastOp.result) :
              Len(lastOp.result[i].jumpPath) = 1 =>
                  \E dir \in Directions : \E d \in PivotDistances :
                      /\ lastOp.result[i].targetPos = Add(lastOp.start, Scale(dir, 2 * d))
                      /\ LegalHop(lastOp.start, lastOp.start, dir, d)

\* C3 as stated: the same with nothing asked of the cells at distances d+1..2d-1
C3_AsStated ==
    Queried =>
        /\ \A dir \in Directions : \A d \in PivotDistances :
              LooseHop(lastOp.start, lastOp.start, dir, d)
                  => JumpsTo(Add(lastOp.start, Scale(dir, 2 * d))) # {}
        /\ \A i \in 1..Len(lastOp.result) :
              Len(lastOp.result[i].jumpPath) = 1 =>
                  \E dir \in Directions : \E d \in PivotDistances :
                      /\ lastOp.result[i].targetPos = Add(lastOp.start, Scale(dir, 2 * d))
                      /\ LooseHop(lastOp.start, lastOp.start, dir, d)

\* C3 case: in one direction a jump over a pivot at distance two or more, in
\* another a pivot with a piece between it and the empty cell at twice its distance
C3_Witness ==
    /\ Queried
    /\ \E dir \in Directions : \E d \in PivotDistances :
          /\ d >= 2
          /\ LegalHop(lastOp.start, lastOp.start, dir, d)
          /\ DirectJumpTo(Add(lastOp.start, Scale(dir, 2 * d)))
    /\ \E dir \in Directions : \E d \in PivotDistances :
          /\ LooseHop(lastOp.start, lastOp.start, dir, d)
          /\ ~LegalHop(lastOp.start, lastOp.start, dir, d)

\* C4: for each direction D the answer has a move of type 'move' to start+D
\* exactly when start+D is an empty cell of the board, and every move of type
\* 'move' has an empty jumpPath
C4_StepIffFree ==
    Queried =>
        /\ \A dir \in Directions :
              StepsTo(Add(lastOp.start, dir)) # {} <=> Free(Add(lastOp.start, dir))
        /\ \A i \in 1..Len(lastOp.result) :
              lastOp.result[i].type = "move" => lastOp.result[i].jumpPath = <<>>

\* C4 case: the start has a neighbour off the board, a neighbour with a piece
\* and an empty neighbour
C4_Witness ==
    /\ Queried
    /\ \E dir \in Directions : ~OnBoard(Add(lastOp.start, dir))
    /\ \E dir \in Directions : Holds(Add(lastOp.start, dir))
    /\ \E dir \in Directions :
          Free(Add(lastOp.start, dir)) /\ StepsTo(Add(lastOp.start, dir)) # {}

\* C5: every move of type 'move' of the answer targets a cell next to the start
C5_StepsNotChained ==
    Queried =>
        \A i \in 1..Len(lastOp.result) :
            lastOp.result[i].type = "move" =>
                \E dir \in Directions :
                    lastOp.result[i].targetPos = Add(lastOp.start, dir)

\* C5 case: the answer has a jump that lands next to an empty cell which is not
\* next to the start, and it has steps
C5_Witness ==
    /\ Queried
    /\ \E i \in 1..Len(lastOp.result) : lastOp.result[i].type = "move"
    /\ \E i \in 1..Len(lastOp.result) :
          /\ lastOp.result[i].type = "jump"
          /\ \E dir \in Directions :
                /\ Free(Add(lastOp.result[i].targetPos, dir))
                /\ \A e \in Directions :
                      Add(lastOp.result[i].targetPos, dir) # Add(lastOp.start, e)

\* ------------------------------------------------------------------------
\* Properties of GameState.movePiece, under SpecApi
\* ------------------------------------------------------------------------
\* the step is a call of movePiece; its arguments are lastOp'.from and lastOp'.to
MovePieceCalled ==
    /\ moveNo' = moveNo + 1
    /\ lastOp'.op = "movePiece"

PieceMovedEvents(events) == {i \in 1..Len(events) : events[i].event = "pieceMoved"}

\* the keys of the cells that hold a piece of the owner `home`, in the board b
\* with the pieces ps
KeysHeldBy(b, ps, home) ==
    {k \in DOMAIN b : b[k].piece # Null /\ ps[b[k].piece].ownerPlayerIndex = home}

\* C6: movePiece(from, to) returns false whenever from is off the board or
\* empty, or to is off the board or occupied (to = from included); then the
\* board, every piece, every player's piecePositions and the turn are as
\* before and no pieceMoved event is emitted
C6_MovePieceRejects ==
    [][(MovePieceCalled /\ (~Holds(lastOp'.from) \/ ~Free(lastOp'.to)))
              => /\ lastOp'.result = FALSE
                 /\ UNCHANGED <<board, pieces, players, turnIndex, turnOrder, matchPhase>>
                 /\ PieceMovedEvents(emitted') = {}]_vars

\* C6 case: a refused call whose destination is its occupied source
C6_Witness ==
    /\ lastOp.op = "movePiece"
    /\ lastOp.result = FALSE
    /\ lastOp.to = lastOp.from
    /\ Holds(lastOp.from)
    /\ emitted = <<>>

\* C7: when from holds a piece and to is an empty cell of the board,
\* movePiece(from, to) returns true; afterwards from is empty, to holds the
\* same piece and the piece's position is to, the owner's piecePositions has
\* the key of from replaced by the key of to, one pieceMoved event
\* {from, to, piece} has been emitted, to listeners that find all this done,
\* and every other cell, every other piece, every other player's set and the
\* turn are as before
C7_MovePieceFrame ==
    [][(MovePieceCalled /\ Holds(lastOp'.from) /\ Free(lastOp'.to))
              => LET fromPos == lastOp'.from
                     toPos == lastOp'.to
                     piece == board[Key(fromPos)].piece
                     owner == pieces[piece].ownerPlayerIndex
                 IN  /\ lastOp'.result = TRUE
                     /\ DOMAIN board' = DOMAIN board
                     /\ board'[Key(fromPos)].piece = Null
                     /\ board'[Key(toPos)].piece = piece
                     /\ \A k \in DOMAIN board \ {Key(fromPos), Key(toPos)} :
                            board'[k] = board[k]
                     /\ board'[Key(fromPos)].position = fromPos
                     /\ board'[Key(toPos)].position = toPos
                     /\ DOMAIN pieces' = DOMAIN pieces
                     /\ pieces'[piece] = [pieces[piece] EXCEPT !.position = toPos]
                     /\ \A other \in DOMAIN pieces \ {piece} : pieces'[other] = pieces[other]
                     /\ Len(players') = Len(players)
                     /\ \A i \in 1..Len(players) :
                            IF players[i].homeTriangleIndex = owner
                            THEN /\ Key(fromPos) \in players[i].piecePositions
                                 /\ players'[i] =
                                      [players[i] EXCEPT !.piecePositions =
                                           (@ \ {Key(fromPos)}) \cup {Key(toPos)}]
                            ELSE players'[i] = players[i]
                     /\ UNCHANGED <<turnIndex, turnOrder, matchPhase>>
                     /\ emitted' =
                          << [event |-> "pieceMoved",
                              data |-> [from |-> fromPos, to |-> toPos, piece |-> piece],
                              calls |-> <<>>,
                              seen |-> Snapshot([board |-> board', pieces |-> pieces',
                                                 players |-> players',
                                                 turnIndex |-> turnIndex,
                                                 turnOrder |-> turnOrder,
                                                 matchPhase |-> matchPhase])] >>]_vars

\* C7 case: an accepted call has moved a piece
C7_Witness ==
    /\ lastOp.op = "movePiece"
    /\ lastOp.result = TRUE
    /\ lastOp.from # lastOp.to
    /\ Free(lastOp.from)
    /\ Holds(lastOp.to)
    /\ PieceMovedEvents(emitted) = {1}

\* ------------------------------------------------------------------------
\* Properties of the application, under Spec
\* ------------------------------------------------------------------------
\* C8: after the game has been initialised, each player's piecePositions has
\* exactly 10 keys and is the set of the keys of the cells that hold a piece of
\* that player. Stated for the states in which no jump animation is in flight:
\* what the claim says of those states does not depend on how the piece in
\* flight, which stands on no cell, is counted.
C8_PiecePositionsMatchBoard ==
    (gameNo >= 1 /\ pending = {}) =>
        \A i \in 1..Len(players) :
            /\ Cardinality(players[i].piecePositions) = 10
            /\ players[i].piecePositions =
                   KeysHeldBy(board, pieces, players[i].homeTriangleIndex)

\* C9: there is never more than one jump animation whose completion callback
\* is still to run
C9_OneAnimationAtMost == Cardinality(pending) <= 1

\* C10: a canvas click made while a jump animation is in progress is rejected:
\* it leaves the board, the pieces, the selection, validMoves, the turn and the
\* animations as they are
C10_ClicksRejectedWhileAnimating ==
    [][(lastOp'.op = "click" /\ pending # {})
          => UNCHANGED <<board, pieces, players, selectedPiece, validMoves,
                         turnIndex, isAnimating, pending>>]_vars

\* the game in which a Piece object was created (PieceId read backwards)
GameOfPiece(piece) == (piece - 1) \div 60

\* the keys of the cells that hold a piece, with the piece
Occupancy(b) == [k \in {c \in DOMAIN b : b[c].piece # Null} |-> b[k].piece]

\* C11: strict serial history. While a jump animation is in flight a canvas
\* click changes neither the occupancy of the board nor the players nor the
\* turn, and the completion callback of an animation started in an earlier
\* game (one that was reset or re-initialised meanwhile) changes nothing in
\* the present game. What the claim says of the reset itself is left out, so
\* that no run fails this statement by the reset alone.
C11_SerialHistory ==
    [][/\ (lastOp'.op = "click" /\ pending # {})
            => UNCHANGED <<players, turnIndex>> /\ Occupancy(board') = Occupancy(board)
       /\ (lastOp'.op = "animationComplete"
              /\ GameOfPiece(lastOp'.animation.piece) # gameNo)
            => UNCHANGED <<players, turnIndex>>
                  /\ Occupancy(board') = Occupancy(board)]_vars

\* C12: no captures. In every state after the game was initialised in which
\* no jump animation is in flight, every active player has exactly 10 pieces
\* on the board and no piece of an inactive triangle is on the board; and the
\* completion callback places its piece on an empty cell.
C12_NoCaptures ==
    [][/\ (gameNo' >= 1 /\ pending' = {})
            => /\ \A i \in 1..Len(players') :
                     Cardinality(KeysHeldBy(board', pieces',
                                            players'[i].homeTriangleIndex)) = 10
               /\ \A k \in DOMAIN board' :
                     board'[k].piece # Null
                         => FindPlayer([players |-> players'],
                                       pieces'[board'[k].piece].ownerPlayerIndex) # 0
       /\ lastOp'.op = "animationComplete"
            => board[Key(lastOp'.animation.toPos)].piece = Null]_vars

\* ------------------------------------------------------------------------
\* Properties of the win check, under SpecWin
\* ------------------------------------------------------------------------
CheckedWin == lastOp.op = "checkWinCondition"

\* the cells the board labels with the home index t
CellsLabelled(t) == {k \in DOMAIN board : board[k].homeIndex = t}

\* each cell of the triangle opposite to the home of player i holds a piece
\* whose owner index is the home index of player i
GoalFilledBy(i) ==
    \A k \in CellsLabelled((players[i].homeTriangleIndex + 3) % 6) :
        /\ board[k].piece # Null
        /\ pieces[board[k].piece].ownerPlayerIndex = players[i].homeTriangleIndex

\* C13: hasWon is true of a player exactly when each of the 10 cells of the
\* triangle (home + 3) mod 6 holds a piece whose owner index is the player's
\* home index
C13_WinExact ==
    CheckedWin =>
        \A i \in 1..Len(players) :
            /\ Cardinality(CellsLabelled((players[i].homeTriangleIndex + 3) % 6)) = 10
            /\ lastOp.hasWon[i] <=> GoalFilledBy(i)

\* C13 case: a player who has not won has nine pieces in the goal triangle and
\* a piece of someone else in the tenth cell
C13_Witness ==
    /\ CheckedWin
    /\ \E i \in 1..Len(players) :
          /\ ~lastOp.hasWon[i]
          /\ \A k \in CellsLabelled(players[i].goalTriangleIndex) : board[k].piece # Null
          /\ Cardinality({k \in CellsLabelled(players[i].goalTriangleIndex) :
                 pieces[board[k].piece].ownerPlayerIndex = players[i].homeTriangleIndex}) = 9

\* C14: checkWinCondition reports no winner when hasWon holds of no player,
\* and otherwise the first player of the player list of whom it holds
C14_FirstWinnerInListOrder ==
    CheckedWin =>
        IF \A i \in 1..Len(players) : ~GoalFilledBy(i)
        THEN lastOp.result = 0
        ELSE /\ lastOp.result \in 1..Len(players)
             /\ GoalFilledBy(lastOp.result)
             /\ \A i \in 1..(lastOp.result - 1) : ~GoalFilledBy(i)

\* C14 case: two players have won, and the one reported is not the first of
\* them in turn order
C14_Witness ==
    /\ CheckedWin
    /\ lastOp.result # 0
    /\ \E j \in 1..Len(turnOrder) :
          /\ GoalFilledBy(FindPlayer(St, turnOrder[j]))
          /\ FindPlayer(St, turnOrder[j]) # lastOp.result
          /\ \E k \in 1..Len(turnOrder) :
                k > j /\ FindPlayer(St, turnOrder[k]) = lastOp.result

\* C14 case of no winner
C14_NoWinner ==
    CheckedWin /\ lastOp.result = 0

\* ------------------------------------------------------------------------
\* Turn order and configuration (SpecConfig)
\* ------------------------------------------------------------------------
TurnsTaken == lastOp.op \in {"initGame", "nextTurn"}

\* C15: in a game of N players, N calls of nextTurn from any point of the
\* game come back to the same current player, and the N players that were
\* current in between are pairwise distinct
C15_TurnCycle ==
    TurnsTaken =>
        LET v == lastOp.visited
            N == Len(players)
        IN  /\ N \in 2..6
            /\ v[Len(v)] = currentPlayerIndex(St)
            /\ getCurrentPlayer(St) = FindPlayer(St, v[Len(v)])
            /\ \A k \in 1..Len(v) :
                  k + N <= Len(v) =>
                      /\ v[k + N] = v[k]
                      /\ \A i, j \in k..(k + N - 1) : i # j => v[i] # v[j]

\* C15 case: five players, and the turn has gone round more than twice
C15_Witness ==
    /\ lastOp.op = "nextTurn"
    /\ Len(players) = 5
    /\ Len(lastOp.visited) > 10
    /\ turnIndex # 0

ActiveTriangles == {players[i].homeTriangleIndex : i \in 1..Len(players)}

\* place of a triangle in the clockwise round that starts at triangle 3
ClockwiseFrom3(t) == (t + 3) % 6

\* C16: after initGame the turn order holds each active triangle once, in
\* the order 3, 4, 5, 0, 1, 2; the player of triangle 3 moves first; with
\* three players the order is 3, 5, 1
C16_TurnOrderAfterInit ==
    lastOp.op = "initGame" =>
        /\ Len(turnOrder) = Cardinality(ActiveTriangles)
        /\ {turnOrder[i] : i \in 1..Len(turnOrder)} = ActiveTriangles
        /\ \A i, j \in 1..Len(turnOrder) :
              i < j => ClockwiseFrom3(turnOrder[i]) < ClockwiseFrom3(turnOrder[j])
        /\ turnIndex = 0
        /\ currentPlayerIndex(St) = 3
        /\ players[getCurrentPlayer(St)].homeTriangleIndex = 3
        /\ (lastOp.input.value = 3 => turnOrder = <<3, 5, 1>>)

\* C16 case: a game of three players has been set up
C16_Witness ==
    /\ lastOp.op = "initGame"
    /\ lastOp.input.value = 3
    /\ Len(players) = 3
    /\ matchPhase = "InProgress"

\* the activation table of the configuration, as sets
ActivationSet(v) ==
    IF v.type # "number" THEN 0..5
    ELSE IF v.value = 2 THEN {0, 3}
    ELSE IF v.value = 3 THEN {1, 3, 5}
    ELSE IF v.value = 4 THEN {0, 1, 3, 4}
    ELSE IF v.value = 5 THEN {0, 1, 2, 3, 4}
    ELSE 0..5

\* C17: getPlayerTriangleIndices answers every input: the table for 2, 3, 4
\* and 5, and all six triangles for 6 and for any other value
C17_ActivationTable ==
    lastOp.op = "getPlayerTriangleIndices" =>
        LET res == lastOp.result
        IN  /\ {res[i] : i \in 1..Len(res)} = ActivationSet(lastOp.input)
            /\ Len(res) = Cardinality(ActivationSet(lastOp.input))
            /\ \A i, j \in 1..Len(res) : i < j => res[i] < res[j]

\* C17 case: the call was made with a value that is no player count
C17_Witness ==
    /\ lastOp.op = "getPlayerTriangleIndices"
    /\ \/ lastOp.input.type # "number"
       \/ lastOp.input.value < 2
    /\ Len(lastOp.result) = 6

RECURSIVE ClockwiseTimes(_, _)
ClockwiseTimes(p, n) == IF n <= 0 THEN p ELSE ClockwiseTimes(rotate60CW(p), n - 1)

\* C20: generateTriangle(N) is the base triangle with rotate60CW applied N
\* times to each cell, in the order of the base triangle, and a second call
\* gives the same cells
C20_TriangleIsClockwiseRotation ==
    lastOp.op = "generateTriangle" =>
        /\ Len(lastOp.result) = Len(baseTriangle)
        /\ \A i \in 1..Len(baseTriangle) :
              lastOp.result[i] = ClockwiseTimes(baseTriangle[i], lastOp.input.value)
        /\ lastOp.again = lastOp.result

\* C20 case: a triangle two rotations away from the base one was generated
C20_Witness ==
    /\ lastOp.op = "generateTriangle"
    /\ lastOp.input.value = 2
    /\ lastOp.result # baseTriangle
    /\ lastOp.result[1] = HexPosition(-8, 4)

\* ------------------------------------------------------------------------
\* Board topology (Spec)
\* ------------------------------------------------------------------------
MaxNorm(p) ==
    LET a == Abs(p[1])
        b == Abs(p[2])
        c == Abs(p[1] + p[2])
    IN  IF a >= b /\ a >= c THEN a ELSE IF b >= c THEN b ELSE c

PositionsLabelled(t) == {board[k].position : k \in CellsLabelled(t)}

\* the central hexagon of the claim, and the base triangle turned clockwise
Hexagon == {p \in (-4..4) \X (-4..4) : MaxNorm(p) <= 4}

TurnedTriangle ==
    [t \in 0..5 |-> {ClockwiseTimes(baseTriangle[i], t) : i \in 1..Len(baseTriangle)}]

\* C19: once the board is initialised it has 121 cells, each under the key of
\* its own position: the 61 cells of the central hexagon labelled -1, and for
\* each t in 0..5 the 10 cells of triangle t, outside the hexagon, labelled
\* t; moves, resets and new games with another player count leave this so
C19_BoardTopology ==
    gameNo >= 1 =>
        /\ Cardinality(DOMAIN board) = 121
        /\ \A k \in DOMAIN board :
              /\ Key(board[k].position) = k
              /\ board[k].homeIndex \in -1..5
        /\ PositionsLabelled(-1) = Hexagon
        /\ Cardinality(CellsLabelled(-1)) = 61
        /\ \A t \in 0..5 :
              /\ Cardinality(CellsLabelled(t)) = 10
              /\ PositionsLabelled(t) = TurnedTriangle[t]
              /\ TurnedTriangle[t] \cap Hexagon = {}

\* C19 case: a second game with another number of players, set up after a
\* move, in which a piece has moved into the central hexagon
C19_Witness ==
    /\ gameNo = 2
    /\ moveNo = MaxMoves
    /\ Len(players) > 2
    /\ pending = {}
    /\ \E k \in CellsLabelled(-1) :
          /\ board[k].piece # Null
          /\ GameOfPiece(board[k].piece) = gameNo

\* ------------------------------------------------------------------------
\* Match phase (SpecEndgame)
\* ------------------------------------------------------------------------
\* the handler has completed a move: onMoveComplete has advanced the turn
MoveCompleted == \E i \in 1..Len(emitted) : emitted[i].event = "turnChanged"

WinDetected == \E i \in 1..Len(players) : GoalFilledBy(i)

\* C18: Application.initialize takes the phase from WaitingToStart to
\* InProgress; a reset and a change of the player count leave it InProgress
\* whatever it was; a click or the end of an animation takes it from
\* InProgress to GameOver exactly when it completes a move after which a
\* player has won, and otherwise leaves it as it is, so that GameOver is left
\* by a reset or a change of the player count only
C18_PhaseTransitions ==
    [][/\ lastOp'.op = "initialize" =>
              matchPhase = "WaitingToStart" /\ matchPhase' = "InProgress"
       /\ lastOp'.op \in {"reset", "setPlayerCount"} => matchPhase' = "InProgress"
       /\ lastOp'.op \in {"click", "animationComplete"} =>
              matchPhase' = IF matchPhase = "InProgress" /\ MoveCompleted' /\ WinDetected'
                            THEN "GameOver"
                            ELSE matchPhase
       /\ matchPhase' \in {"WaitingToStart", "InProgress", "GameOver"}]_vars

\* C18 case: the jump that brings the last piece into the goal triangle has
\* ended and the match is over
C18_Witness ==
    /\ matchPhase = "GameOver"
    /\ lastOp.op = "animationComplete"
    /\ WinDetected
    /\ gameNo = 1

\* ------------------------------------------------------------------------
\* Goal triangles (SpecConfig)
\* ------------------------------------------------------------------------
Negated(S) == {HexPosition(-p[1], -p[2]) : p \in S}

\* C21: the goal triangle of each player of a game is triangle (home + 3)
\* mod 6, its cells are the negated coordinates of the cells of the home
\* triangle, and getGoalTriangleIndex of the goal index is the home index
C21_GoalIsOpposite ==
    TurnsTaken =>
        \A i \in 1..Len(players) :
            LET home == players[i].homeTriangleIndex
                goal == players[i].goalTriangleIndex
            IN  /\ goal = (home + 3) % 6
                /\ PositionsLabelled(goal) = Negated(PositionsLabelled(home))
                /\ SeqRange(generateTriangle(goal)) = Negated(SeqRange(generateTriangle(home)))
                /\ getGoalTriangleIndex(goal) = home
                /\ getGoalTriangleIndex(getGoalTriangleIndex(home)) = home

\* C21 case: a game of three players, whose goal triangles are all empty
C21_Witness ==
    /\ lastOp.op = "initGame"
    /\ Len(players) = 3
    /\ \A i \in 1..Len(players) :
          /\ players[i].goalTriangleIndex \notin ActiveTriangles
          /\ PositionsLabelled(players[i].goalTriangleIndex) # {}

\* ------------------------------------------------------------------------
\* Queries at any coordinates (SpecQuery)
\* ------------------------------------------------------------------------
MovesQueried == lastOp.op = "findValidMoves"

C23_OffBoardStartFailsClosed ==
    /\ (MovesQueried /\ ~OnBoard(lastOp.start)) => lastOp.result = <<>>
    /\ (lastOp.op = "isValidMove" /\ ~OnBoard(lastOp.start)) => lastOp.result = 0

BoardStateUnchanged == UNCHANGED <<board, pieces, players, turnIndex, turnOrder, matchPhase>>

\* C24: for a coordinate that is not a cell of the board isPositionOccupied
\* returns false, getPieceAt returns null, and removePieceAt returns null and
\* leaves the board, the pieces and the players as they were
C24_OffBoardQueries ==
    [][/\ (lastOp'.op = "boardQuery" /\ Key(lastOp'.pos) \notin DOMAIN board) =>
              /\ lastOp'.isPositionOccupied = FALSE
              /\ lastOp'.getPieceAt = Null
       /\ (lastOp'.op = "removePieceAt" /\ Key(lastOp'.pos) \notin DOMAIN board) =>
              /\ lastOp'.result = Null
              /\ BoardStateUnchanged
              /\ emitted' = <<>>]_vars

\* C24 case: removePieceAt was called for a position off the board, next to
\* a cell that holds a piece
C24_Witness ==
    /\ lastOp.op = "removePieceAt"
    /\ ~OnBoard(lastOp.pos)
    /\ \E dir \in Directions : Holds(Add(lastOp.pos, dir))

\* C26: fromKey(p.key) is p for the coordinates of the range, negative ones
\* included, and no other coordinate of the range has the key of p
C26_KeyLossless ==
    lastOp.op = "fromKey" =>
        /\ lastOp.result = lastOp.pos
        /\ \A q \in QueryPositions : Key(q) = lastOp.key => q = lastOp.pos

\* C26 case: the key of a coordinate with two negative components, the
\* second at the edge of the range
C26_Witness ==
    /\ lastOp.op = "fromKey"
    /\ lastOp.pos[1] < 0
    /\ lastOp.pos[2] = -MaxCoord
    /\ Len(lastOp.key) >= 5

\* ------------------------------------------------------------------------
\* Moves and their events (Spec)
\* ------------------------------------------------------------------------
\* C25: a handler that completes a move, a step or a jump chain, emits
\* exactly one pieceMoved event, and the event carries the cell the piece has
\* left and the cell it stands on
C25_OneEventPerMove ==
    [][(lastOp'.op \in {"click", "animationComplete"} /\ MoveCompleted') =>
            /\ Cardinality(PieceMovedEvents(emitted')) = 1
            /\ \A i \in PieceMovedEvents(emitted') :
                  /\ board'[Key(emitted'[i].data.from)].piece = Null
                  /\ board'[Key(emitted'[i].data.to)].piece = emitted'[i].data.piece]_vars

\* ------------------------------------------------------------------------
\* Jump paths (SpecEngine)
\* ------------------------------------------------------------------------
Jumps == {i \in 1..Len(lastOp.result) : lastOp.result[i].type = "jump"}

\* the start followed by the landing spots of the jump move i
FullPath(i) == <<lastOp.start>> \o lastOp.result[i].jumpPath

\* the hops of the reported jump paths, as pairs of cells, and with their
\* direction and the distance of the pivot
HopPairs ==
    UNION {{<<FullPath(i)[k], FullPath(i)[k + 1]>> :
               k \in 1..Len(lastOp.result[i].jumpPath)} : i \in Jumps}

ReportedHops ==
    {h \in HopPairs \X Directions \X PivotDistances :
        h[1][2] = Add(h[1][1], Scale(h[2], 2 * h[3]))}

\* the cells a reported path lands on, and the start
Spots == {lastOp.start} \cup UNION {SeqRange(lastOp.result[i].jumpPath) : i \in Jumps}

\* C27: no reported hop over a pivot at distance d has an occupied or
\* off-board cell at the distances d+1..2d-1 or at the distance 2d, and none
\* passes over a position off the board
C27_BlockedJumpsNotProduced ==
    Queried =>
        \A h \in ReportedHops :
            /\ \A k \in (h[3] + 1)..(2 * h[3]) : Free(Add(h[1][1], Scale(h[2], k)))
            /\ \A k \in 1..(2 * h[3]) : OnBoard(Add(h[1][1], Scale(h[2], k)))

\* C27 case: one pivot next to the start has a piece on the landing cell,
\* another has its landing cell off the board, and some jump is reported
C27_Witness ==
    /\ Queried
    /\ Jumps # {}
    /\ \E dir \in Directions :
          Holds(Add(lastOp.start, dir)) /\ Holds(Add(lastOp.start, Scale(dir, 2)))
    /\ \E dir \in Directions : \E d \in PivotDistances :
          /\ \A k \in 1..(d - 1) : Free(Add(lastOp.start, Scale(dir, k)))
          /\ Holds(Add(lastOp.start, Scale(dir, d)))
          /\ ~OnBoard(Add(lastOp.start, Scale(dir, 2 * d)))

\* the start is the first occupied cell met from f in direction dir
StartMetFirst(f, dir) ==
    \E d \in 1..MaxScanDistance :
        /\ Add(f, Scale(dir, d)) = lastOp.start
        /\ \A k \in 1..(d - 1) : Free(Add(f, Scale(dir, k)))

\* C28: the pivot of no reported hop is the start cell, and from a spot from
\* which the first piece met in a direction is the one on the start cell no
\* hop in that direction is reported
C28_NoJumpOverStart ==
    Queried =>
        \A h \in ReportedHops :
            /\ Add(h[1][1], Scale(h[2], h[3])) # lastOp.start
            /\ ~StartMetFirst(h[1][1], h[2])

\* C28 case: from a landing spot the start cell is the first occupied cell
\* in a direction, and behind it stands a piece with empty cells up to a free
\* landing cell
C28_Witness ==
    /\ Queried
    /\ \E f \in Spots \ {lastOp.start} : \E dir \in Directions :
          /\ StartMetFirst(f, dir)
          /\ \E e \in PivotDistances :
                /\ Holds(Add(f, Scale(dir, e)))
                /\ \E d \in 1..(e - 1) : Add(f, Scale(dir, d)) = lastOp.start
                /\ \A k \in 1..(2 * e) :
                      k # e /\ Add(f, Scale(dir, k)) # lastOp.start
                          => Free(Add(f, Scale(dir, k)))

NoRepeat(s) == \A i, j \in 1..Len(s) : i # j => s[i] # s[j]

\* C29: the path of a reported jump is not empty, ends with the target of
\* the move, has no coordinate twice and not the start, and each of its hops
\* is one legal jump in one of the six directions over a pivot midway
C29_JumpPathsWellFormed ==
    Queried =>
        \A i \in Jumps :
            LET path == lastOp.result[i].jumpPath
            IN  /\ Len(path) > 0
                /\ path[Len(path)] = lastOp.result[i].targetPos
                /\ NoRepeat(FullPath(i))
                /\ \A k \in 1..Len(path) :
                      \E dir \in Directions : \E d \in PivotDistances :
                          /\ FullPath(i)[k + 1] = Add(FullPath(i)[k], Scale(dir, 2 * d))
                          /\ LegalHop(lastOp.start, FullPath(i)[k], dir, d)

\* C29 case: a path of three hops
C29_Witness ==
    /\ Queried
    /\ \E i \in Jumps : Len(lastOp.result[i].jumpPath) >= 3

\* C30: the target of each move reported for a piece is an empty cell of the
\* board other than the start, and a piece with no empty cell next to it and
\* no legal jump gets the empty list
C30_MovesSound ==
    (Queried /\ Holds(lastOp.start)) =>
        /\ \A i \in 1..Len(lastOp.result) :
              /\ OnBoard(lastOp.result[i].targetPos)
              /\ Free(lastOp.result[i].targetPos)
              /\ lastOp.result[i].targetPos # lastOp.start
        /\ ((\A dir \in Directions : ~Free(Add(lastOp.start, dir)))
               /\ HopsFrom(lastOp.start, lastOp.start) = {})
             => lastOp.result = <<>>

\* C30 case: the piece on the tip of triangle 3, shut in by the pieces behind
\* it, has no move
C30_Witness ==
    /\ Queried
    /\ Holds(lastOp.start)
    /\ \A dir \in Directions : ~Free(Add(lastOp.start, dir))
    /\ HopsFrom(lastOp.start, lastOp.start) = {}
    /\ lastOp.result = <<>>

\* ------------------------------------------------------------------------
\* The cost of a search (SpecEngine)
\* ------------------------------------------------------------------------
\* C31: the search of a query ends, having scanned from no coordinate twice,
\* from the start and from the landing spots it reports only, and so from no
\* more coordinates than the board has cells
C31_SearchExploresOnce ==
    Queried =>
        /\ NoRepeat(lastOp.explored)
        /\ Len(lastOp.explored) <= Cardinality(AllCells)
        /\ SeqRange(lastOp.explored) = Spots

\* C31 case: a landing spot that two different spots of the search jump to
\* has been scanned from
C31_Witness ==
    /\ Queried
    /\ \E t \in SeqRange(lastOp.explored) : Convergent(lastOp.start, t)
    /\ Len(lastOp.explored) >= 4

HomeCells == UNION {SeqRange(homeSpaces[t]) : t \in ActiveTriangles}

\* the position at the start of a game
OpeningPosition ==
    /\ \A i \in 1..Len(players) :
          LET home == players[i].homeTriangleIndex
          IN  /\ Len(homeSpaces[home]) = 10
              /\ \A j \in 1..Len(homeSpaces[home]) :
                    LET k == Key(homeSpaces[home][j])
                    IN  /\ k \in DOMAIN board
                        /\ board[k].piece # Null
                        /\ pieces[board[k].piece].ownerPlayerIndex = home
                        /\ pieces[board[k].piece].position = homeSpaces[home][j]
              /\ players[i].piecePositions = {Key(p) : p \in SeqRange(homeSpaces[home])}
              /\ Cardinality(players[i].piecePositions) = 10
    /\ \A k \in DOMAIN board : board[k].piece # Null => board[k].position \in HomeCells
    /\ turnIndex = 0
    /\ matchPhase = "InProgress"

\* the game has just been set up
GameSetUp == lastOp.op \in {"initGame", "initialize", "reset", "setPlayerCount"}

\* C33: after initGame(n), and after a reset or a change of the player count
\* made while no animation is pending, the ten home cells of each player hold
\* pieces of that player, all other cells are empty, piecePositions are the
\* keys of the home cells, the turn index is 0 and the phase is InProgress;
\* the players are those of the activation table
C33_FreshGameAfterSetup ==
    (GameSetUp /\ pending = {}) =>
        /\ OpeningPosition
        /\ Len(players) >= 2
        /\ lastOp.op = "initGame" => ActiveTriangles = ActivationSet(lastOp.input)
        /\ lastOp.op = "setPlayerCount" => ActiveTriangles = ActivationSet(JsNumber(lastOp.count))

\* C33 case: a game of three players was reset after a move had been
\* requested in it
C33_Witness ==
    /\ lastOp.op = "reset"
    /\ pending = {}
    /\ moveNo >= 1
    /\ gameNo = 2
    /\ Len(players) = 3
    /\ OpeningPosition

\* ------------------------------------------------------------------------
\* Event delivery (SpecEvents)
\* ------------------------------------------------------------------------
\* the callbacks subscribed to an event after the calls of a history: those
\* whose last call for the event is a subscribe
SubscribedAfter(history, event) ==
    {c \in Callbacks :
        \E i \in 1..Len(history) :
            /\ history[i] = [call |-> "subscribe", event |-> event, callback |-> c]
            /\ \A j \in (i + 1)..Len(history) :
                  history[j] # [call |-> "unsubscribe", event |-> event, callback |-> c]}

StateResetEvents(events) == {i \in 1..Len(events) : events[i].event = "stateReset"}

\* C34: nextTurn emits one event, turnChanged, after it has moved the index,
\* with the player then to move; a reset emits one stateReset, after the
\* cells, the players and the turn order have been cleared; and an emission
\* calls the callbacks subscribed to its event at that time, each once
C34_EventDelivery ==
    [][/\ lastOp'.op = "nextTurn" =>
              /\ Len(emitted') = 1
              /\ emitted'[1].event = "turnChanged"
              /\ turnIndex' = (turnIndex + 1) % Len(turnOrder)
              /\ emitted'[1].seen.turnIndex = turnIndex'
              /\ emitted'[1].data.playerIndex = turnOrder'[turnIndex' + 1]
       /\ lastOp'.op = "reset" =>
              /\ Cardinality(StateResetEvents(emitted')) = 1
              /\ \A i \in StateResetEvents(emitted') :
                    /\ DOMAIN emitted'[i].seen.occupied = {}
                    /\ emitted'[i].seen.piecePositions = <<>>
                    /\ emitted'[i].seen.turnOrder = <<>>
                    /\ emitted'[i].seen.turnIndex = 0
       /\ \A i \in 1..Len(emitted') :
              /\ NoRepeat(emitted'[i].calls)
              /\ SeqRange(emitted'[i].calls)
                    = SubscribedAfter(lastOp'.history, emitted'[i].event)]_vars

\* C34 case: a callback was subscribed to turnChanged twice and another one
\* once, and a turn has passed: two callbacks were called
C34_Witness ==
    /\ lastOp.op = "nextTurn"
    /\ Len(lastOp.history) = 3
    /\ lastOp.history[1] = lastOp.history[2]
    /\ \A i \in 1..3 : lastOp.history[i].call = "subscribe"
                       /\ lastOp.history[i].event = "turnChanged"
    /\ lastOp.history[3] # lastOp.history[1]
    /\ Len(emitted) = 1
    /\ Len(emitted[1].calls) = 2

\* ------------------------------------------------------------------------
\* Whose turn it is (Spec)
\* ------------------------------------------------------------------------
\* the step is a click that requests a move
MoveRequested == lastOp'.op = "click" /\ moveNo' = moveNo + 1

\* the step completes a move: a requested step move is made at once, a jump
\* when its animation ends
MoveMade ==
    \/ lastOp'.op = "animationComplete"
    \/ MoveRequested /\ pending' = pending

TurnChangedEvents(events) == {i \in 1..Len(events) : events[i].event = "turnChanged"}

\* C35: the piece of a requested move belongs to the player whose turn it
\* is at the request; the turn index goes one place further, once, in a step
\* that completes a move; it stays in every other click; it is 0 after the
\* setup of a game
C35_TurnDiscipline ==
    [][/\ MoveRequested =>
              /\ selectedPiece # Null
              /\ pieces[selectedPiece].ownerPlayerIndex = turnOrder[turnIndex + 1]
       /\ MoveMade =>
              /\ turnIndex' = (turnIndex + 1) % Len(turnOrder)
              /\ Cardinality(TurnChangedEvents(emitted')) = 1
       /\ (lastOp'.op = "click" /\ ~MoveMade) =>
              /\ turnIndex' = turnIndex
              /\ TurnChangedEvents(emitted') = {}
       /\ lastOp'.op \in {"initialize", "reset", "setPlayerCount"} =>
              /\ turnIndex' = 0
              /\ TurnChangedEvents(emitted') = {}]_vars

\* ------------------------------------------------------------------------
\* Clicks after the end of the match (SpecEndgame)
\* ------------------------------------------------------------------------
\* C36: in the phase GameOver a click selects no piece, moves no piece and
\* does not advance the turn
C36_NoPlayAfterGameOver ==
    [][(matchPhase = "GameOver" /\ lastOp'.op = "click") =>
            /\ selectedPiece' = Null
            /\ validMoves' = <<>>
            /\ BoardStateUnchanged
            /\ pending' = pending
            /\ TurnChangedEvents(emitted') = {}]_vars

\* ------------------------------------------------------------------------
\* The winner (SpecEndgame)
\* ------------------------------------------------------------------------
\* the keys of the cells of each triangle
TriangleKeys == [t \in 0..5 |-> {Key(p) : p \in TriangleCells(t)}]

\* the players that satisfy the win condition, by home triangle: each cell
\* of the opposite triangle holds a piece of theirs
Winners ==
    {players[i].homeTriangleIndex :
        i \in {j \in 1..Len(players) :
                  \A k \in TriangleKeys[(players[j].homeTriangleIndex + 3) % 6] :
                      /\ board[k].piece # Null
                      /\ pieces[board[k].piece].ownerPlayerIndex
                            = players[j].homeTriangleIndex}}

\* the owners of the pieces the last handler has put on a cell in completing
\* a move: the piece of the pieceMoved event, the piece of the animation
Movers ==
    {emitted[i].data.piece : i \in PieceMovedEvents(emitted)}
        \cup (IF lastOp.op = "animationComplete" THEN {lastOp.animation.piece} ELSE {})

\* C37: in a step from InProgress to GameOver a move has been completed and
\* the winner that onMoveComplete hands to endMatch, the first player that
\* checkWinCondition finds, is the owner of the piece moved and the only
\* player whose goal is filled; in the phase InProgress no goal is filled
C37_WinnerIsMover ==
    [][/\ (matchPhase = "InProgress" /\ matchPhase' = "GameOver") =>
              /\ lastOp'.op \in {"click", "animationComplete"}
              /\ MoveCompleted'
              /\ Cardinality(Movers') = 1
              /\ checkWinCondition(St') # 0
              /\ \A piece \in Movers' :
                    /\ players'[checkWinCondition(St')].homeTriangleIndex
                          = pieces'[piece].ownerPlayerIndex
                    /\ Winners' = {pieces'[piece].ownerPlayerIndex}
       /\ matchPhase = "InProgress" => Winners = {}
       /\ matchPhase' = "InProgress" => Winners' = {}]_vars

\* C37 case: in a game of three players or more a step move has brought the
\* last piece of the player of triangle 3 into the goal; the turn has passed
\* to the next player and the match is over
C37_Witness ==
    /\ matchPhase = "GameOver"
    /\ lastOp.op = "click"
    /\ Len(players) >= 3
    /\ Winners = {3}
    /\ \A piece \in Movers : pieces[piece].ownerPlayerIndex = 3
    /\ Movers # {}
    /\ currentPlayerIndex(St) # 3

\* ------------------------------------------------------------------------
\* Moves can be made (SpecMove)
\* ------------------------------------------------------------------------
\* C38: movePiece(start, target) of a move that findValidMoves has returned
\* for a piece on the same board returns true and brings the piece there;
\* isValidMove(start, to) returns a move, one with the target to, exactly
\* when to is the target of a move of findValidMoves(start)
C38_MovesExecutable ==
    /\ lastOp.op = "movePiece" =>
          /\ lastOp.result = TRUE
          /\ Free(lastOp.from)
          /\ Holds(lastOp.to)
          /\ PieceMovedEvents(emitted) = {1}
    /\ lastOp.op = "isValidMove" =>
          /\ lastOp.result # 0
                <=> \E i \in 1..Len(lastOp.moves) : lastOp.moves[i].targetPos = lastOp.to
          /\ lastOp.result # 0 => lastOp.moves[lastOp.result].targetPos = lastOp.to

\* C38 case: a jump over two pieces in turn, returned by the query, was made
C38_Witness ==
    /\ lastOp.op = "movePiece"
    /\ lastOp.result = TRUE
    /\ lastOp.move.type = "jump"
    /\ Len(lastOp.move.jumpPath) >= 2
    /\ Holds(lastOp.to)

\* ------------------------------------------------------------------------
\* The turn accessor (SpecEndgame)
\* ------------------------------------------------------------------------
\* C39: once a game has been set up the turn order lists the home triangles
\* of the players, each once and no other; the turn index is one of
\* 0..N-1; getCurrentPlayer finds a player, the one of turnOrder[turnIndex]
C39_TurnAccessor ==
    gameNo >= 1 =>
        /\ NoRepeat(turnOrder)
        /\ SeqRange(turnOrder) = ActiveTriangles
        /\ Len(turnOrder) = Len(players)
        /\ Len(turnOrder) >= 2
        /\ turnIndex \in 0..(Len(turnOrder) - 1)
        /\ getCurrentPlayer(St) \in 1..Len(players)
        /\ players[getCurrentPlayer(St)].homeTriangleIndex = turnOrder[turnIndex + 1]

\* C39 case: two moves have been made in a game of two players and the turn
\* has come round to the first place of the order
C39_Witness ==
    /\ gameNo >= 1
    /\ lastOp.op = "click"
    /\ MoveCompleted
    /\ moveNo = 2
    /\ Len(turnOrder) = 2
    /\ turnIndex = 0

====
